---- MODULE Spec2Model ----
(***************************************************************************)
(* Generic report renderer (generateHtmlFromData and its helpers).         *)
(*                                                                         *)
(* JavaScript values are tagged records.  A JavaScript string is the       *)
(* sequence of its pieces: a piece is one character of data, or one        *)
(* literal of the source text (a chunk of a template literal, a quoted     *)
(* literal) kept verbatim.  Concatenation of strings is concatenation of   *)
(* the sequences.  An operation that throws yields the value Throw, which  *)
(* every enclosing expression propagates.                                  *)
(***************************************************************************)
EXTENDS Integers, Sequences, FiniteSets

VARIABLES
    input,      \* the value the operation is applied to
    called,     \* name of the operation that was applied ("none" before)
    argDepth,   \* the depth argument of renderArray / renderObject
    argKey,     \* the key argument of renderPrimitive
    argTitle,   \* the title argument of generateHtmlFromData
    argToday,   \* the date string the clock gave generateHtmlFromData
    result,     \* what the operation returned
    posts,      \* the proxy: the POST requests it has taken, each with its progress
    ui,         \* the component: its React state
    calls,      \* the component: the Generate / Try Example clicks taken, each with its progress
    frames      \* the renderer's recursion: the calls of renderObject / renderArray under way

vars == <<input, called, argDepth, argKey, argTitle, argToday, result, posts, ui, calls, frames>>

---------------------------------------------------------------------------
(* Bounds of the model.                                                    *)

MaxLen == 3         \* longest flat sequence / mapping drawn as an input
MaxNest == 3        \* number of container layers wrapped around a seed
MaxKeyLen == 3      \* longest free-form key string drawn as an input
MaxDepthArg == 2    \* largest depth argument passed to a renderer
MaxMarkupLen == 4   \* longest free-form markup string sent as html_data
MaxPosts == 2       \* POST requests the proxy takes in one run
MaxCalls == 2       \* Generate / Try Example clicks the component takes in one run

---------------------------------------------------------------------------
(* JavaScript values.                                                      *)

Str(s) == [tag |-> "string", s |-> s]
Num(n) == [tag |-> "number", n |-> n]
Bool(b) == [tag |-> "boolean", b |-> b]
Null == [tag |-> "null"]
Undefined == [tag |-> "undefined"]
Arr(items) == [tag |-> "array", items |-> items]
\* props: the own properties as <<name, value>> pairs in creation order
Obj(props) == [tag |-> "object", props |-> props]
Fn(name) == [tag |-> "function", name |-> name]
Throw == [tag |-> "throw", error |-> "TypeError"]

Lit(text) == Str(<<text>>)
IsThrow(v) == v.tag = "throw"

typeof(v) ==
    CASE v.tag = "string" -> "string"
      [] v.tag = "number" -> "number"
      [] v.tag = "boolean" -> "boolean"
      [] v.tag = "undefined" -> "undefined"
      [] v.tag = "function" -> "function"
      [] OTHER -> "object"

ToBoolean(v) ==
    CASE v.tag = "string" -> v.s # <<>>
      [] v.tag = "number" -> v.n # 0
      [] v.tag = "boolean" -> v.b
      [] v.tag = "null" -> FALSE
      [] v.tag = "undefined" -> FALSE
      [] OTHER -> TRUE

RECURSIVE Flatten(_)
Flatten(ss) == IF ss = <<>> THEN <<>> ELSE Head(ss) \o Flatten(Tail(ss))

Digits == <<"0", "1", "2", "3", "4", "5", "6", "7", "8", "9">>

RECURSIVE NatToString(_)
NatToString(n) ==
    IF n < 10 THEN <<Digits[n + 1]>>
    ELSE NatToString(n \div 10) \o <<Digits[(n % 10) + 1]>>

NumberToString(n) == IF n < 0 THEN <<"-">> \o NatToString(-n) ELSE NatToString(n)

RECURSIVE JoinWithComma(_)
JoinWithComma(ss) ==
    IF ss = <<>> THEN <<>>
    ELSE IF Len(ss) = 1 THEN ss[1]
    ELSE ss[1] \o <<",">> \o JoinWithComma(Tail(ss))

\* ToString / String() of the values a template literal or String() is handed here.
RECURSIVE JSToString(_)
JSToString(v) ==
    CASE v.tag = "string" -> v
      [] v.tag = "number" -> Str(NumberToString(v.n))
      [] v.tag = "boolean" -> IF v.b THEN Str(<<"t", "r", "u", "e">>) ELSE Str(<<"f", "a", "l", "s", "e">>)
      [] v.tag = "null" -> Str(<<"n", "u", "l", "l">>)
      [] v.tag = "undefined" -> Lit("undefined")
      [] v.tag = "function" -> Str(<<"function ">> \o v.name \o <<"() { [native code] }">>)
      [] v.tag = "object" -> Lit("[object Object]")
      [] v.tag = "array" ->        \* Array.prototype.join: null and undefined give ''
            Str(JoinWithComma([i \in DOMAIN v.items |->
                    IF v.items[i].tag \in {"null", "undefined"} THEN <<>>
                    ELSE JSToString(v.items[i]).s]))
      [] v.tag = "throw" -> Throw

\* `chunk${part}chunk...`: ToString of every part, concatenated.
Template(parts) ==
    IF \E i \in DOMAIN parts : IsThrow(JSToString(parts[i])) THEN Throw
    ELSE Str(Flatten([i \in DOMAIN parts |-> JSToString(parts[i]).s]))

\* strings.join('')
join(strings) == Template(strings)

\* array.filter(Boolean); a throwing callback has already ended the map
filterBoolean(values) == SelectSeq(values, LAMBDA v : IsThrow(v) \/ ToBoolean(v))

---------------------------------------------------------------------------
(* Characters and the String.prototype methods the source calls.           *)

Lowers == <<"a", "b", "c", "d", "e", "f", "g", "h", "i", "j", "k", "l", "m",
            "n", "o", "p", "q", "r", "s", "t", "u", "v", "w", "x", "y", "z">>
Uppers == <<"A", "B", "C", "D", "E", "F", "G", "H", "I", "J", "K", "L", "M",
            "N", "O", "P", "Q", "R", "S", "T", "U", "V", "W", "X", "Y", "Z">>

IndexIn(c, table) == CHOOSE i \in DOMAIN table : table[i] = c
IsUpper(c) == \E i \in DOMAIN Uppers : Uppers[i] = c
IsLower(c) == \E i \in DOMAIN Lowers : Lowers[i] = c
IsDigit(c) == \E i \in DOMAIN Digits : Digits[i] = c
IsWhiteSpace(c) == c \in {" ", "\t", "\n", "\r"}

charToLower(c) == IF IsUpper(c) THEN Lowers[IndexIn(c, Uppers)] ELSE c
charToUpper(c) == IF IsLower(c) THEN Uppers[IndexIn(c, Lowers)] ELSE c

\* s.toLowerCase()
toLowerCase(s) == [i \in DOMAIN s |-> charToLower(s[i])]

\* s.includes(t)
includes(s, t) ==
    \E i \in 0..(Len(s) - Len(t)) : \A j \in 1..Len(t) : s[i + j] = t[j]

\* s.replace(/([A-Z])/g, ' $1')
replaceUpperWithSpaced(s) ==
    Flatten([i \in DOMAIN s |-> IF IsUpper(s[i]) THEN <<" ", s[i]>> ELSE <<s[i]>>])

\* s.replace(/^./, (str) => str.toUpperCase()); '.' matches no line break
replaceFirstWithUpper(s) ==
    IF s = <<>> \/ Head(s) \in {"\n", "\r"} THEN s
    ELSE <<charToUpper(Head(s))>> \o Tail(s)

RECURSIVE trimStart(_)
trimStart(s) ==
    IF s # <<>> /\ IsWhiteSpace(Head(s)) THEN trimStart(Tail(s)) ELSE s

RECURSIVE trimEnd(_)
trimEnd(s) ==
    IF s # <<>> /\ IsWhiteSpace(s[Len(s)]) THEN trimEnd(SubSeq(s, 1, Len(s) - 1)) ELSE s

\* s.trim()
trim(s) == trimEnd(trimStart(s))

---------------------------------------------------------------------------
(* Objects: own properties, Object.prototype, Object.entries.              *)

\* Properties every object literal inherits from Object.prototype.
ObjectPrototypeMethods ==
    { <<"c", "o", "n", "s", "t", "r", "u", "c", "t", "o", "r">>,
      <<"t", "o", "S", "t", "r", "i", "n", "g">>,
      <<"v", "a", "l", "u", "e", "O", "f">>,
      <<"h", "a", "s", "O", "w", "n", "P", "r", "o", "p", "e", "r", "t", "y">>,
      <<"i", "s", "P", "r", "o", "t", "o", "t", "y", "p", "e", "O", "f">>,
      <<"t", "o", "L", "o", "c", "a", "l", "e", "S", "t", "r", "i", "n", "g">> }
ProtoAccessor == <<"_", "_", "p", "r", "o", "t", "o", "_", "_">>

\* Object.prototype[name]
ObjectPrototypeGet(name) ==
    IF name = <<"c", "o", "n", "s", "t", "r", "u", "c", "t", "o", "r">>
        THEN Fn(<<"O", "b", "j", "e", "c", "t">>)
    ELSE IF name \in ObjectPrototypeMethods THEN Fn(name)
    ELSE Undefined

HasOwn(obj, name) == \E i \in DOMAIN obj.props : obj.props[i][1] = name
OwnValue(obj, name) == obj.props[CHOOSE i \in DOMAIN obj.props : obj.props[i][1] = name][2]

\* value[name] / value.name for a string name
Get(value, name) ==
    CASE value.tag \in {"null", "undefined"} -> Throw
      [] value.tag = "object" ->
            IF HasOwn(value, name) THEN OwnValue(value, name)
            ELSE IF name = ProtoAccessor THEN Obj(<<>>)   \* the prototype object
            ELSE ObjectPrototypeGet(name)
      [] OTHER -> IF name = ProtoAccessor THEN Obj(<<>>) ELSE ObjectPrototypeGet(name)

\* A canonical array index: decimal digits without a leading zero.
IsArrayIndex(name) ==
    /\ name # <<>>
    /\ \A i \in DOMAIN name : IsDigit(name[i])
    /\ (Len(name) > 1 => name[1] # "0")

RECURSIVE IndexValue(_)
IndexValue(name) ==
    IF name = <<>> THEN 0
    ELSE 10 * IndexValue(SubSeq(name, 1, Len(name) - 1))
         + (IndexIn(name[Len(name)], Digits) - 1)

RECURSIVE SortByIndex(_)
SortByIndex(props) ==
    IF props = <<>> THEN <<>>
    ELSE LET m == CHOOSE i \in DOMAIN props :
                      \A j \in DOMAIN props : IndexValue(props[i][1]) <= IndexValue(props[j][1])
         IN <<props[m]>> \o SortByIndex(SubSeq(props, 1, m - 1) \o SubSeq(props, m + 1, Len(props)))

\* Own property order: array indices ascending, then strings in creation order.
OwnPropertyOrder(props) ==
    SortByIndex(SelectSeq(props, LAMBDA p : IsArrayIndex(p[1])))
        \o SelectSeq(props, LAMBDA p : ~IsArrayIndex(p[1]))

\* Object.entries(obj): [key, value] pairs, keys as strings
ObjectEntries(obj) ==
    IF obj.tag \in {"null", "undefined"} THEN Throw
    ELSE LET ordered == OwnPropertyOrder(obj.props)
         IN Arr([i \in DOMAIN ordered |-> <<Str(ordered[i][1]), ordered[i][2]>>])

---------------------------------------------------------------------------
(* Type guards and coercions.                                              *)

\* Array.isArray(value)
isArray(value) == value.tag = "array"

\* isObject with the null test forgotten
isObjectNullPasses(value) == typeof(value) = "object" /\ ~isArray(value)

isObject(value) == typeof(value) = "object" /\ value # Null /\ ~isArray(value)

\* isPrimitive as whatever typeof does not call an object
isPrimitiveNotAnObject(value) == typeof(value) # "object"

isPrimitive(value) ==
    typeof(value) = "string" \/ typeof(value) = "number" \/ typeof(value) = "boolean"

\* every value that is not absent wrapped, arrays included
ensureArrayAlwaysWraps(value) ==
    IF value = Null \/ value = Undefined THEN Arr(<<>>) ELSE Arr(<<value>>)

ensureArray(value) ==
    IF isArray(value) THEN value
    ELSE IF value = Null \/ value = Undefined THEN Arr(<<>>)
    ELSE Arr(<<value>>)

\* JSON.stringify of a string: quoted, with '"' and '\' escaped
QuoteJSONString(s) ==
    <<"\"">> \o Flatten([i \in DOMAIN s |->
                    IF s[i] \in {"\"", "\\"} THEN <<"\\", s[i]>> ELSE <<s[i]>>]) \o <<"\"">>

\* JSON.stringify(value) as a piece sequence; <<>> stands for undefined
RECURSIVE SerializeJSON(_)
SerializeJSON(value) ==
    CASE value.tag = "string" -> QuoteJSONString(value.s)
      [] value.tag \in {"number", "boolean", "null"} -> JSToString(value).s
      [] value.tag = "array" ->
            <<"[">> \o JoinWithComma([i \in DOMAIN value.items |->
                        IF value.items[i].tag \in {"undefined", "function"}
                        THEN <<"n", "u", "l", "l">>
                        ELSE SerializeJSON(value.items[i])]) \o <<"]">>
      [] value.tag = "object" ->
            LET kept == SelectSeq(OwnPropertyOrder(value.props),
                                  LAMBDA p : p[2].tag \notin {"undefined", "function"})
            IN <<"{">> \o JoinWithComma([i \in DOMAIN kept |->
                        QuoteJSONString(kept[i][1]) \o <<":">> \o SerializeJSON(kept[i][2])])
                 \o <<"}">>
      [] OTHER -> <<>>

JSONstringify(value) ==
    IF value.tag \in {"undefined", "function"} THEN Undefined
    ELSE Str(SerializeJSON(value))

\* the null / undefined test forgotten
ensureStringAbsentStringified(value) ==
    IF typeof(value) = "string" THEN value
    ELSE IF typeof(value) = "number" \/ typeof(value) = "boolean" THEN JSToString(value)
    ELSE JSONstringify(value)

ensureString(value) ==
    IF typeof(value) = "string" THEN value
    ELSE IF value = Null \/ value = Undefined THEN Str(<<>>)
    ELSE IF typeof(value) = "number" \/ typeof(value) = "boolean" THEN JSToString(value)
    ELSE JSONstringify(value)

---------------------------------------------------------------------------
(* Key labels and highlighting.                                            *)

specialCases ==
    Obj(<<
        <<<<"h", "t", "m", "l", "_", "d", "a", "t", "a">>,
          Str(<<"H", "T", "M", "L", " ", "D", "a", "t", "a">>)>>,
        <<<<"h", "a", "z", "a", "r", "d", "I", "d">>,
          Str(<<"H", "a", "z", "a", "r", "d", " ", "I", "D">>)>>,
        <<<<"r", "e", "p", "o", "r", "t", "D", "a", "t", "e">>,
          Str(<<"R", "e", "p", "o", "r", "t", " ", "D", "a", "t", "e">>)>>,
        <<<<"r", "i", "s", "k", "R", "a", "t", "i", "n", "g">>,
          Str(<<"R", "i", "s", "k", " ", "R", "a", "t", "i", "n", "g">>)>>,
        <<<<"r", "o", "o", "t", "C", "a", "u", "s", "e", "A", "n", "a", "l", "y", "s", "i", "s">>,
          Str(<<"R", "o", "o", "t", " ", "C", "a", "u", "s", "e", " ", "A", "n", "a", "l", "y", "s", "i", "s">>)>>,
        <<<<"r", "i", "s", "k", "A", "s", "s", "e", "s", "s", "m", "e", "n", "t">>,
          Str(<<"R", "i", "s", "k", " ", "A", "s", "s", "e", "s", "s", "m", "e", "n", "t">>)>>,
        <<<<"c", "o", "m", "p", "l", "i", "a", "n", "c", "e", "R", "e", "f", "e", "r", "e", "n", "c", "e", "s">>,
          Str(<<"C", "o", "m", "p", "l", "i", "a", "n", "c", "e", " ", "R", "e", "f", "e", "r", "e", "n", "c", "e", "s">>)>>,
        <<<<"i", "m", "a", "g", "e", "A", "n", "a", "l", "y", "s", "i", "s">>,
          Str(<<"I", "m", "a", "g", "e", " ", "A", "n", "a", "l", "y", "s", "i", "s">>)>>,
        <<<<"d", "e", "t", "e", "c", "t", "e", "d", "H", "a", "z", "a", "r", "d", "s">>,
          Str(<<"D", "e", "t", "e", "c", "t", "e", "d", " ", "H", "a", "z", "a", "r", "d", "s">>)>>,
        <<<<"o", "v", "e", "r", "a", "l", "l", "E", "n", "v", "i", "r", "o", "n", "m", "e", "n", "t">>,
          Str(<<"O", "v", "e", "r", "a", "l", "l", " ", "E", "n", "v", "i", "r", "o", "n", "m", "e", "n", "t">>)>>,
        <<<<"c", "o", "n", "f", "i", "d", "e", "n", "c", "e", "S", "c", "o", "r", "e">>,
          Str(<<"C", "o", "n", "f", "i", "d", "e", "n", "c", "e", " ", "S", "c", "o", "r", "e">>)>>,
        <<<<"b", "o", "u", "n", "d", "i", "n", "g", "B", "o", "x">>,
          Str(<<"B", "o", "u", "n", "d", "i", "n", "g", " ", "B", "o", "x">>)>>,
        <<<<"h", "a", "z", "a", "r", "d", "T", "y", "p", "e">>,
          Str(<<"H", "a", "z", "a", "r", "d", " ", "T", "y", "p", "e">>)>>,
        <<<<"p", "o", "t", "e", "n", "t", "i", "a", "l", "H", "a", "r", "m">>,
          Str(<<"P", "o", "t", "e", "n", "t", "i", "a", "l", " ", "H", "a", "r", "m">>)>>,
        <<<<"r", "i", "s", "k", "L", "e", "v", "e", "l">>,
          Str(<<"R", "i", "s", "k", " ", "L", "e", "v", "e", "l">>)>>,
        <<<<"r", "e", "s", "p", "o", "n", "s", "i", "b", "l", "e", "P", "e", "r", "s", "o", "n">>,
          Str(<<"R", "e", "s", "p", "o", "n", "s", "i", "b", "l", "e", " ", "P", "e", "r", "s", "o", "n">>)>>,
        <<<<"i", "m", "m", "e", "d", "i", "a", "t", "e", "A", "c", "t", "i", "o", "n">>,
          Str(<<"I", "m", "m", "e", "d", "i", "a", "t", "e", " ", "A", "c", "t", "i", "o", "n">>)>>
    >>)

\* the generic transform alone, the table never consulted
formatKeyNameGenericOnly(key) ==
    Str(trim(replaceFirstWithUpper(replaceUpperWithSpaced(key.s))))

formatKeyName(key) ==
    IF ToBoolean(Get(specialCases, key.s)) THEN Get(specialCases, key.s)
    ELSE Str(trim(replaceFirstWithUpper(replaceUpperWithSpaced(key.s))))

highlightKeys ==
    <<
       <<"t", "i", "t", "l", "e">>,
       <<"d", "e", "s", "c", "r", "i", "p", "t", "i", "o", "n">>,
       <<"h", "a", "z", "a", "r", "d">>,
       <<"a", "c", "t", "i", "o", "n">>,
       <<"r", "i", "s", "k">>,
       <<"s", "e", "v", "e", "r", "i", "t", "y">>,
       <<"c", "a", "t", "e", "g", "o", "r", "y">>,
       <<"l", "o", "c", "a", "t", "i", "o", "n">>,
       <<"i", "m", "m", "e", "d", "i", "a", "t", "e", "A", "c", "t", "i", "o", "n">>,
       <<"r", "i", "s", "k", "R", "a", "t", "i", "n", "g">>
    >>

\* the comparison made without lowercasing either side
isHighlightKeyCaseSensitive(key) ==
    \E i \in DOMAIN highlightKeys : includes(key.s, highlightKeys[i])

isHighlightKey(key) ==
    \E i \in DOMAIN highlightKeys :
        includes(toLowerCase(key.s), toLowerCase(highlightKeys[i]))

---------------------------------------------------------------------------
(* Property names the source spells out.                                   *)

MESSAGE == <<"m", "e", "s", "s", "a", "g", "e">>
HTML_DATA == <<"h", "t", "m", "l", "_", "d", "a", "t", "a">>
TITLE == <<"t", "i", "t", "l", "e">>
HAZARD_DETAILS == <<"h", "a", "z", "a", "r", "d", "D", "e", "t", "a", "i", "l", "s">>
DETECTED_HAZARDS == <<"d", "e", "t", "e", "c", "t", "e", "d", "H", "a", "z", "a", "r", "d", "s">>
HAZARD_ID == <<"h", "a", "z", "a", "r", "d", "I", "d">>
RISK_RATING == <<"r", "i", "s", "k", "R", "a", "t", "i", "n", "g">>
NOTES == <<"n", "o", "t", "e", "s">>
CONSTRUCTOR == <<"c", "o", "n", "s", "t", "r", "u", "c", "t", "o", "r">>

---------------------------------------------------------------------------
(* The renderers.                                                          *)

renderPrimitive(value, key) ==
    LET displayValue == ensureString(value)
        isHighlight == ToBoolean(key) /\ isHighlightKey(key)
    IN IF isHighlight
       THEN Template(<<Lit("<p style=\"margin: 0; font-weight: 600; color: #111827; line-height: 1.6;\">"),
                       displayValue, Lit("</p>")>>)
       ELSE Template(<<Lit("<p style=\"margin: 0; color: #4b5563; line-height: 1.6;\">"),
                       displayValue, Lit("</p>")>>)

\* only 'message' skipped
isSkippedKeyMessageOnly(key) == key = Str(MESSAGE)

\* key === 'message' || key === 'html_data'
isSkippedKey(key) ==
    key = Str(MESSAGE) \/ key = Str(HTML_DATA)

\* depth === 0 ? '#f9fafb' : '#ffffff'
\* the two backgrounds taken in turn, by the parity of the depth
cardBackgroundByParity(depth) == IF depth % 2 = 0 THEN Lit("#f9fafb") ELSE Lit("#ffffff")

cardBackground(depth) == IF depth = 0 THEN Lit("#f9fafb") ELSE Lit("#ffffff")

\* arr.every(item => isPrimitive(item))
everyPrimitive(arr) == \A i \in DOMAIN arr.items : isPrimitive(arr.items[i])

\* the element rendered at the sequence's own depth
elementDepthUnchanged(depth) == depth

\* the depth renderArray hands to renderObject for an object element
elementDepth(depth) == depth + 1

\* the depth renderObject hands to renderArray for an array field, had it counted the array
arrayFieldDepthIncremented(depth) == depth + 1

\* the depth renderObject hands to renderArray for an array field
arrayFieldDepth(depth) == depth

\* the depth renderObject hands to renderObject for an object field
fieldDepth(depth) == depth + 1

\* what renderArray returns for an empty array
emptyArrayHtml ==
    Lit("<p style=\"margin: 0; color: #9ca3af; font-style: italic;\">No data available</p>")

\* an empty object rendered as nothing at all
emptyObjectHtmlBlank == Str(<<>>)

\* what renderObject returns for an object without entries
emptyObjectHtml ==
    Lit("<p style=\"margin: 0; color: #9ca3af; font-style: italic;\">No data available</p>")

\* the list item filled with the JSON text of the element
listItemHtmlStringified(item) ==
    Template(<<Lit("<li style=\"margin-bottom: 6px; color: #4b5563;\">"),
               JSONstringify(item), Lit("</li>")>>)

\* item => `<li ...>${ensureString(item)}</li>`
listItemHtml(item) ==
    Template(<<Lit("<li style=\"margin-bottom: 6px; color: #4b5563;\">"),
               ensureString(item), Lit("</li>")>>)

\* the field stack, falling back to the placeholder when no entry rendered
fieldStackHtmlOrPlaceholder(blocks) ==
    IF filterBoolean(blocks) = <<>> THEN emptyObjectHtml
    ELSE Template(<<
            Lit("\n    <div style=\"display: flex; flex-direction: column; gap: 12px;\">\n      "),
            join(filterBoolean(blocks)),
            Lit("\n    </div>\n  ")>>)

\* `<div ...>${entries.map(...).filter(Boolean).join('')}</div>`
fieldStackHtml(blocks) ==
    Template(<<
        Lit("\n    <div style=\"display: flex; flex-direction: column; gap: 12px;\">\n      "),
        join(filterBoolean(blocks)),
        Lit("\n    </div>\n  ")>>)

\* the card numbered by the index itself
ordinalZeroBased(index) == index

\* the number on a card's label: index + 1
ordinal(index) == index + 1

RECURSIVE renderArray(_, _, _)
RECURSIVE renderObject(_, _)

renderArray(arr, key, depth) ==
    IF ~isArray(arr) THEN Throw      \* .length of null, or .every of a non-array
    ELSE IF Len(arr.items) = 0 THEN emptyArrayHtml
    ELSE IF everyPrimitive(arr)
    THEN Template(<<
            Lit("\n      <ul style=\"padding-left: 20px; margin: 8px 0; line-height: 1.8;\">\n        "),
            join([i \in DOMAIN arr.items |-> listItemHtml(arr.items[i])]),
            Lit("\n      </ul>\n    ")>>)
    ELSE Template(<<
            Lit("\n    <div style=\"display: flex; flex-direction: column; gap: 12px; margin-top: 8px;\">\n      "),
            join([i \in DOMAIN arr.items |->
                LET item == arr.items[i]
                    index == i - 1
                IN IF isObject(item)
                   THEN Template(<<
                        Lit("\n            <div style=\"padding: 15px; background-color: "),
                        cardBackground(depth),
                        Lit("; border: 1px solid #e5e7eb; border-radius: 6px;\">\n              <div style=\"margin-bottom: 8px; font-weight: 600; color: #6b7280; font-size: 13px;\">Item "),
                        Num(ordinal(index)),
                        Lit("</div>\n              "),
                        renderObject(item, elementDepth(depth)),
                        Lit("\n            </div>\n          ")>>)
                   ELSE Template(<<
                        Lit("<div style=\"padding: 10px; background-color: #f9fafb; border-radius: 4px;\">"),
                        renderPrimitive(ensureString(item), Undefined),
                        Lit("</div>")>>)]),
            Lit("\n    </div>\n  ")>>)

renderObject(obj, depth) ==
    LET entries == ObjectEntries(obj)
        entryHtml(entry) ==
            LET key == entry[1]
                value == entry[2]
                label == formatKeyName(key)
            IN IF isSkippedKey(key) THEN Str(<<>>)
               ELSE IF isPrimitive(value)
               THEN Template(<<
                    Lit("\n            <div>\n              <p style=\"margin: 0 0 4px 0; color: #6b7280; font-size: 13px; text-transform: uppercase; letter-spacing: 0.5px; font-weight: 600;\">"),
                    label,
                    Lit("</p>\n              "),
                    renderPrimitive(value, key),
                    Lit("\n            </div>\n          ")>>)
               ELSE IF isArray(value)
               THEN Template(<<
                    Lit("\n            <div>\n              <p style=\"margin: 0 0 8px 0; color: #111827; font-size: 15px; font-weight: 600;\">"),
                    label,
                    Lit("</p>\n              "),
                    renderArray(ensureArray(value), key, arrayFieldDepth(depth)),
                    Lit("\n            </div>\n          ")>>)
               ELSE IF isObject(value)
               THEN Template(<<
                    Lit("\n            <div>\n              <h3 style=\"margin: 0 0 12px 0; color: #111827; font-size: 16px; font-weight: 700; border-left: 4px solid #3b82f6; padding-left: 12px;\">"),
                    label,
                    Lit("</h3>\n              "),
                    renderObject(value, fieldDepth(depth)),
                    Lit("\n            </div>\n          ")>>)
               ELSE Str(<<>>)
    IN IF IsThrow(entries) THEN Throw
       ELSE IF Len(entries.items) = 0 THEN emptyObjectHtml
       ELSE fieldStackHtml([i \in DOMAIN entries.items |-> entryHtml(entries.items[i])])

\* The calls of renderObject and renderArray that rendering makes, each with
\* the place of its argument in the data (the positions taken from the root,
\* in Object.entries order for a mapping) and with its depth argument.
RECURSIVE objectCalls(_, _, _)
RECURSIVE arrayCalls(_, _, _)

\* renderObject giving up below depth 1: nothing is rendered under a mapping at depth 2
objectCallsDepthLimited(obj, path, depth) ==
    LET entries == ObjectEntries(obj)
        below(i) ==
            LET value == entries.items[i][2]
            IN IF isSkippedKey(entries.items[i][1]) \/ depth >= 2 THEN {}
               ELSE IF isArray(value)
               THEN arrayCalls(ensureArray(value), Append(path, i), arrayFieldDepth(depth))
               ELSE IF isObject(value)
               THEN objectCalls(value, Append(path, i), fieldDepth(depth))
               ELSE {}
    IN {[op |-> "renderObject", arg |-> obj, path |-> path, depth |-> depth]}
         \cup (IF IsThrow(entries) THEN {} ELSE UNION {below(i) : i \in DOMAIN entries.items})

\* renderObject(obj, depth) and the calls below it
objectCalls(obj, path, depth) ==
    LET entries == ObjectEntries(obj)
        below(i) ==
            LET key == entries.items[i][1]
                value == entries.items[i][2]
            IN IF isSkippedKey(key) \/ isPrimitive(value) THEN {}
               ELSE IF isArray(value)
               THEN arrayCalls(ensureArray(value), Append(path, i), arrayFieldDepth(depth))
               ELSE IF isObject(value)
               THEN objectCalls(value, Append(path, i), fieldDepth(depth))
               ELSE {}
    IN {[op |-> "renderObject", arg |-> obj, path |-> path, depth |-> depth]}
         \cup (IF IsThrow(entries) THEN {} ELSE UNION {below(i) : i \in DOMAIN entries.items})

\* renderArray(arr, key, depth) and the calls below it
arrayCalls(arr, path, depth) ==
    {[op |-> "renderArray", arg |-> arr, path |-> path, depth |-> depth]}
        \cup (IF ~isArray(arr) \/ everyPrimitive(arr) THEN {}
              ELSE UNION {IF isObject(arr.items[i])
                          THEN objectCalls(arr.items[i], Append(path, i), elementDepth(depth))
                          ELSE {} : i \in DOMAIN arr.items})

\* the calls below generateHtmlFromData(data)
bodyCalls(data) ==
    IF isObject(data) THEN objectCalls(data, <<>>, 0)
    ELSE IF isArray(data) THEN arrayCalls(ensureArray(data), <<>>, 0)
    ELSE {}

\* title: string = 'Report'
titleOrDefault(title) ==
    IF title = Undefined THEN Str(<<"R", "e", "p", "o", "r", "t">>) ELSE title

\* the title of the data never looked at
reportTitleIgnoringData(data, title) == title

\* let reportTitle = title; if (typeof data.title === 'string') reportTitle = data.title
reportTitle(data, title) ==
    IF isObject(data) /\ typeof(Get(data, TITLE)) = "string" THEN Get(data, TITLE) ELSE title

\* let reportSubtitle = ''; set from data.hazardDetails.title when that is a string
reportSubtitle(data) ==
    LET hazardDetails == Get(data, HAZARD_DETAILS)
    IN IF /\ isObject(data)
          /\ typeof(hazardDetails) = "object" /\ hazardDetails # Null
          /\ typeof(Get(hazardDetails, TITLE)) = "string"
       THEN Get(hazardDetails, TITLE)
       ELSE Str(<<>>)

\* today: what new Date().toLocaleDateString() returns at the call
generateHtmlFromData(data, title, today) ==
    LET bodyContent ==
            IF isObject(data) THEN renderObject(data, 0)
            ELSE IF isArray(data) THEN renderArray(ensureArray(data), Undefined, 0)
            ELSE renderPrimitive(ensureString(data), Undefined)
    IN Template(<<
            Lit("\n    <div style=\"font-family: 'Segoe UI', Tahoma, Geneva, Verdana, sans-serif; padding: 40px; color: #1f2937; max-width: 900px; margin: 0 auto; background-color: #ffffff;\">\n      \n      <!-- Header -->\n      <div style=\"border-bottom: 2px solid #e5e7eb; padding-bottom: 20px; margin-bottom: 30px;\">\n        <h1 style=\"color: #111827; font-size: 28px; font-weight: 700; margin: 0 0 10px 0;\">"),
            reportTitle(data, titleOrDefault(title)),
            Lit("</h1>\n        "),
            IF ToBoolean(reportSubtitle(data))
            THEN Template(<<Lit("<p style=\"color: #6b7280; font-size: 16px; margin: 0;\">"),
                            reportSubtitle(data), Lit("</p>")>>)
            ELSE Str(<<>>),
            Lit("\n      </div>\n\n      <!-- Content -->\n      "),
            bodyContent,
            Lit("\n\n      <!-- Footer -->\n      <div style=\"margin-top: 50px; text-align: center; border-top: 1px solid #e5e7eb; padding-top: 20px;\">\n        <p style=\"color: #9ca3af; font-size: 12px;\">Generated by AI Report Generator \\u2022 "),
            today,
            Lit("</p>\n      </div>\n    </div>\n  ")>>)

---------------------------------------------------------------------------
(* The component: what generateReport makes of the webhook's response.     *)

\* the back quote character U+0060, which a string of this module cannot hold
BackQuote == "\\u0060"

\* the code fence markers: three back quotes and 'html', three back quotes
FenceOpen == <<BackQuote, BackQuote, BackQuote, "h", "t", "m", "l">>
FenceClose == <<BackQuote, BackQuote, BackQuote>>

\* s.indexOf(t, from), 1-based; 0 when t does not occur at or after from
IndexOf(s, t, from) ==
    LET at == {i \in from..(Len(s) - Len(t) + 1) : SubSeq(s, i, i + Len(t) - 1) = t}
    IN IF at = {} THEN 0 ELSE CHOOSE i \in at : \A j \in at : i <= j

\* the capture group running to the last closing fence (a greedy group)
htmlMatchGreedy(s) ==
    LET open == IndexOf(s, FenceOpen, 1)
        rest == SubSeq(s, open + Len(FenceOpen), Len(s))
        closes == {i \in 1..(Len(rest) - 2) : SubSeq(rest, i, i + 2) = FenceClose}
        last == CHOOSE i \in closes : \A j \in closes : j <= i
    IN IF open = 0 \/ closes = {} THEN Null
       ELSE Str(trimStart(SubSeq(rest, 1, last - 1)))

\* s.match(/FenceOpen\s*([\s\S]*?)\s*FenceClose/): the capture group
\* htmlMatch[1], or null when nothing matches.  The match starts at the first
\* opening fence; the greedy \s* takes the white space after it, the lazy
\* group runs up to the first closing fence that follows and leaves its
\* trailing white space to the second \s*.
htmlMatch(s) ==
    LET open == IndexOf(s, FenceOpen, 1)
        rest == trimStart(SubSeq(s, open + Len(FenceOpen), Len(s)))
        close == IndexOf(rest, FenceClose, 1)
    IN IF open = 0 \/ close = 0 THEN Null
       ELSE Str(trimEnd(SubSeq(rest, 1, close - 1)))

\* if (html.includes(FenceOpen)) { const htmlMatch = html.match(...);
\*     if (htmlMatch && htmlMatch[1]) html = htmlMatch[1].trim() }
stripCodeFence(html) ==
    IF includes(html.s, FenceOpen) /\ htmlMatch(html.s) # Null /\ ToBoolean(htmlMatch(html.s))
    THEN Str(trim(htmlMatch(html.s).s))
    ELSE html

\* value.split(' ')[0]
splitFirst(value) ==
    IF typeof(value) # "string" THEN Throw      \* .split is not a function / of undefined
    ELSE LET space == IndexOf(value.s, <<" ">>, 1)
         IN IF space = 0 THEN value ELSE Str(SubSeq(value.s, 1, space - 1))

\* value.map(action => <li style="margin-bottom: 8px;">${action}</li>).join('')
actionItems(value) ==
    IF ~isArray(value) THEN Throw               \* .map is not a function / of undefined
    ELSE join([i \in DOMAIN value.items |->
                Template(<<Lit("<li style=\"margin-bottom: 8px;\">"), value.items[i], Lit("</li>")>>)])

\* today: what new Date().toLocaleDateString() returns at the call
generateHtmlReport(data, today) ==
    Template(<<
        Lit("\n    <div style=\"font-family: 'Segoe UI', Tahoma, Geneva, Verdana, sans-serif; padding: 40px; color: #1f2937; max-width: 800px; margin: 0 auto; background-color: #ffffff;\">\n      \n      <!-- Header -->\n      <div style=\"border-bottom: 2px solid #e5e7eb; padding-bottom: 20px; margin-bottom: 30px; display: flex; justify-content: space-between; align-items: start;\">\n        <div>\n          <h1 style=\"color: #111827; font-size: 28px; font-weight: 700; margin: 0 0 10px 0;\">CAPA Report</h1>\n          <p style=\"color: #6b7280; font-size: 16px; margin: 0;\">"),
        Get(Get(data, <<"h", "a", "z", "a", "r", "d", "D", "e", "t", "a", "i", "l", "s">>), <<"t", "i", "t", "l", "e">>),
        Lit("</p>\n        </div>\n        <div style=\"text-align: right;\">\n           <span style=\"display: inline-block; background-color: #fee2e2; color: #991b1b; padding: 6px 12px; border-radius: 9999px; font-size: 14px; font-weight: 600;\">\n            "),
        splitFirst(Get(Get(data, <<"h", "a", "z", "a", "r", "d", "D", "e", "t", "a", "i", "l", "s">>), <<"r", "i", "s", "k", "R", "a", "t", "i", "n", "g">>)),
        Lit(" Risk\n          </span>\n        </div>\n      </div>\n\n      <!-- Info Grid -->\n      <div style=\"display: grid; grid-template-columns: 1fr 1fr; gap: 20px; margin-bottom: 30px; background-color: #f9fafb; padding: 20px; border-radius: 8px;\">\n        <div>\n          <p style=\"margin: 0 0 5px 0; color: #6b7280; font-size: 13px; text-transform: uppercase; letter-spacing: 0.5px; font-weight: 600;\">Report Date</p>\n          <p style=\"margin: 0; font-weight: 500;\">"),
        Get(Get(data, <<"h", "a", "z", "a", "r", "d", "D", "e", "t", "a", "i", "l", "s">>), <<"r", "e", "p", "o", "r", "t", "D", "a", "t", "e">>),
        Lit("</p>\n        </div>\n         <div>\n          <p style=\"margin: 0 0 5px 0; color: #6b7280; font-size: 13px; text-transform: uppercase; letter-spacing: 0.5px; font-weight: 600;\">Hazard ID</p>\n          <p style=\"margin: 0; font-family: monospace; font-weight: 500;\">"),
        Get(Get(data, <<"h", "a", "z", "a", "r", "d", "D", "e", "t", "a", "i", "l", "s">>), <<"h", "a", "z", "a", "r", "d", "I", "d">>),
        Lit("</p>\n        </div>\n        <div>\n          <p style=\"margin: 0 0 5px 0; color: #6b7280; font-size: 13px; text-transform: uppercase; letter-spacing: 0.5px; font-weight: 600;\">Location</p>\n          <p style=\"margin: 0; font-weight: 500;\">"),
        Get(Get(data, <<"h", "a", "z", "a", "r", "d", "D", "e", "t", "a", "i", "l", "s">>), <<"l", "o", "c", "a", "t", "i", "o", "n">>),
        Lit("</p>\n        </div>\n        <div>\n          <p style=\"margin: 0 0 5px 0; color: #6b7280; font-size: 13px; text-transform: uppercase; letter-spacing: 0.5px; font-weight: 600;\">Category</p>\n          <p style=\"margin: 0; font-weight: 500;\">"),
        Get(Get(data, <<"h", "a", "z", "a", "r", "d", "D", "e", "t", "a", "i", "l", "s">>), <<"c", "a", "t", "e", "g", "o", "r", "y">>),
        Lit("</p>\n        </div>\n      </div>\n\n      <!-- Section 1: Hazard Details -->\n      <div style=\"margin-bottom: 30px;\">\n        <h2 style=\"color: #111827; font-size: 18px; font-weight: 700; border-left: 4px solid #3b82f6; padding-left: 12px; margin-bottom: 15px;\">1. Hazard Description</h2>\n        <p style=\"line-height: 1.6; margin-bottom: 15px;\">"),
        Get(Get(data, <<"h", "a", "z", "a", "r", "d", "D", "e", "t", "a", "i", "l", "s">>), <<"d", "e", "s", "c", "r", "i", "p", "t", "i", "o", "n">>),
        Lit("</p>\n        <div style=\"background-color: #eff6ff; border: 1px solid #bfdbfe; border-radius: 6px; padding: 15px;\">\n          <p style=\"margin: 0; color: #1e40af; font-size: 14px;\"><strong>Immediate Action:</strong> "),
        Get(Get(data, <<"h", "a", "z", "a", "r", "d", "D", "e", "t", "a", "i", "l", "s">>), <<"i", "m", "m", "e", "d", "i", "a", "t", "e", "A", "c", "t", "i", "o", "n">>),
        Lit("</p>\n        </div>\n      </div>\n\n      <!-- Section 2: Root Cause -->\n      <div style=\"margin-bottom: 30px;\">\n        <h2 style=\"color: #111827; font-size: 18px; font-weight: 700; border-left: 4px solid #3b82f6; padding-left: 12px; margin-bottom: 15px;\">2. Root Cause Analysis</h2>\n        <p style=\"white-space: pre-wrap; line-height: 1.6; font-size: 14px;\">"),
        Get(Get(data, <<"a", "d", "d", "i", "t", "i", "o", "n", "a", "l", "I", "n", "f", "o", "r", "m", "a", "t", "i", "o", "n">>), <<"r", "o", "o", "t", "C", "a", "u", "s", "e", "A", "n", "a", "l", "y", "s", "i", "s">>),
        Lit("</p>\n      </div>\n\n      <!-- Section 3: Corrective Actions -->\n      <div style=\"margin-bottom: 30px;\">\n        <h2 style=\"color: #111827; font-size: 18px; font-weight: 700; border-left: 4px solid #3b82f6; padding-left: 12px; margin-bottom: 15px;\">3. Corrective Actions</h2>\n        <ul style=\"padding-left: 20px; line-height: 1.6; margin-bottom: 15px;\">\n           "),
        actionItems(Get(Get(data, <<"c", "o", "r", "r", "e", "c", "t", "i", "v", "e", "A", "c", "t", "i", "o", "n", "s">>), <<"a", "c", "t", "i", "o", "n">>)),
        Lit("\n        </ul>\n        <div style=\"display: flex; gap: 20px; font-size: 14px;\">\n           <span style=\"color: #4b5563;\"><strong>Responsible:</strong> "),
        Get(Get(data, <<"c", "o", "r", "r", "e", "c", "t", "i", "v", "e", "A", "c", "t", "i", "o", "n", "s">>), <<"r", "e", "s", "p", "o", "n", "s", "i", "b", "l", "e", "P", "e", "r", "s", "o", "n">>),
        Lit("</span>\n           <span style=\"color: #4b5563;\"><strong>Timeline:</strong> "),
        Get(Get(data, <<"c", "o", "r", "r", "e", "c", "t", "i", "v", "e", "A", "c", "t", "i", "o", "n", "s">>), <<"t", "i", "m", "e", "l", "i", "n", "e">>),
        Lit("</span>\n        </div>\n      </div>\n\n      <!-- Section 4: Preventive Actions -->\n      <div style=\"margin-bottom: 30px;\">\n        <h2 style=\"color: #111827; font-size: 18px; font-weight: 700; border-left: 4px solid #3b82f6; padding-left: 12px; margin-bottom: 15px;\">4. Preventive Actions</h2>\n        <ul style=\"padding-left: 20px; line-height: 1.6; margin-bottom: 15px;\">\n           "),
        actionItems(Get(Get(data, <<"p", "r", "e", "v", "e", "n", "t", "i", "v", "e", "A", "c", "t", "i", "o", "n", "s">>), <<"a", "c", "t", "i", "o", "n">>)),
        Lit("\n        </ul>\n      </div>\n\n      <!-- Section 5: Compliance -->\n      <div style=\"margin-bottom: 30px;\">\n        <h2 style=\"color: #111827; font-size: 18px; font-weight: 700; border-left: 4px solid #3b82f6; padding-left: 12px; margin-bottom: 15px;\">5. Compliance & Risks</h2>\n        <div style=\"font-size: 14px;\">\n           <p style=\"margin-bottom: 10px;\"><strong>Risk Assessment:</strong></p>\n           <p style=\"white-space: pre-wrap; margin-bottom: 20px; color: #4b5563; line-height: 1.5;\">"),
        Get(Get(data, <<"a", "d", "d", "i", "t", "i", "o", "n", "a", "l", "I", "n", "f", "o", "r", "m", "a", "t", "i", "o", "n">>), <<"r", "i", "s", "k", "A", "s", "s", "e", "s", "s", "m", "e", "n", "t">>),
        Lit("</p>\n           \n           <p style=\"margin-bottom: 10px;\"><strong>Compliance References:</strong></p>\n           <p style=\"white-space: pre-wrap; color: #4b5563; line-height: 1.5;\">"),
        Get(Get(data, <<"a", "d", "d", "i", "t", "i", "o", "n", "a", "l", "I", "n", "f", "o", "r", "m", "a", "t", "i", "o", "n">>), <<"c", "o", "m", "p", "l", "i", "a", "n", "c", "e", "R", "e", "f", "e", "r", "e", "n", "c", "e", "s">>),
        Lit("</p>\n        </div>\n      </div>\n\n      <!-- Footer -->\n       <div style=\"margin-top: 50px; text-align: center; border-top: 1px solid #e5e7eb; padding-top: 20px;\">\n         <p style=\"color: #9ca3af; font-size: 12px;\">Generated by AI CAPA Generator \\u00e2\\u20ac\\u00a2 "),
        today,
        Lit("</p>\n       </div>\n    </div>\n  ")>>)

\* part_003: the html_data of the result
htmlContent(rawData, today) ==
    LET html_data == Get(rawData, HTML_DATA)
    IN IF typeof(html_data) = "object" /\ html_data # Null THEN generateHtmlReport(html_data, today)
       ELSE IF typeof(html_data) = "string" THEN stripCodeFence(html_data)
       ELSE Str(<<>>)

\* part_003: the value handed to setResult, or the error thrown before it
settledResult(rawData, today) ==
    IF rawData \in {Null, Undefined} THEN Throw            \* rawData.message
    ELSE IF IsThrow(htmlContent(rawData, today)) THEN Throw
    ELSE Obj(<< <<MESSAGE, Get(rawData, MESSAGE)>>,
                <<HTML_DATA, htmlContent(rawData, today)>> >>)

\* data.html_data = value
SetHtmlData(data, value) ==
    Obj([i \in DOMAIN data.props |->
            IF data.props[i][1] = HTML_DATA THEN <<HTML_DATA, value>> ELSE data.props[i]])

\* capa-generator.tsx: the value handed to setResult, or the error thrown
\* before it
settledData(data) ==
    IF data \in {Null, Undefined} THEN Throw               \* data.html_data
    ELSE LET html_data == Get(data, HTML_DATA)
         IN IF ~ToBoolean(html_data) THEN data
            ELSE IF typeof(html_data) = "string"
            THEN IF stripCodeFence(html_data) = html_data THEN data
                 ELSE SetHtmlData(data, stripCodeFence(html_data))
            ELSE IF isArray(html_data)                      \* Array.prototype.includes
            THEN IF \E i \in DOMAIN html_data.items : html_data.items[i] = Str(FenceOpen)
                 THEN Throw                                 \* .match is not a function
                 ELSE data
            ELSE Throw                                      \* .includes is not a function

---------------------------------------------------------------------------
(* Inputs.                                                                 *)

SeqsUpTo(S, n) == UNION {[1..k -> S] : k \in 0..n}

DistinctKeys(props) ==
    \A i, j \in DOMAIN props : i # j => props[i][1] # props[j][1]

OK == Str(<<"o", "k">>)
Leaves == {OK, Num(7), Bool(TRUE), Null}

\* sequences of leaves
FlatArrays == {Arr(items) : items \in SeqsUpTo(Leaves, MaxLen)}

\* mappings of leaves, reserved and ordinary keys in every order
FlatKeys == {MESSAGE, HTML_DATA, NOTES, RISK_RATING}
FieldValues == {OK, Num(7), Null}
FlatObjects ==
    {Obj(props) : props \in {p \in SeqsUpTo(FlatKeys \X FieldValues, MaxLen) : DistinctKeys(p)}}

\* mappings whose keys mix array indices and names, in every creation order
IndexKeys == {NOTES, <<"2">>, <<"1">>, <<"1", "0">>}
IndexKeyObjects ==
    {Obj(props) : props \in {p \in SeqsUpTo(IndexKeys \X {Num(7)}, MaxLen) : DistinctKeys(p)}}

Seeds ==
    Leaves \cup
    { Str(<<>>), Str(<<"\"">>), Num(0), Num(-12), Bool(FALSE),
      Arr(<<>>), Obj(<<>>),
      Obj(<< <<TITLE, Str(<<"N", "e", "a", "r", " ", "M", "i", "s", "s">>)>> >>),
      Obj(<< <<HAZARD_ID, Str(<<"H", "1">>)>> >>),
      Obj(<< <<CONSTRUCTOR, Num(7)>>, <<ProtoAccessor, OK>> >>),
      Obj(<< <<TITLE, Num(7)>>, <<HAZARD_DETAILS, Arr(<<OK>>)>> >>),
      Obj(<< <<HTML_DATA, OK>>, <<NOTES, Num(7)>>, <<MESSAGE, Obj(<<>>)>> >>) }

Wrap(v) ==
    { Arr(<<v, OK>>),
      Obj(<< <<HAZARD_DETAILS, v>> >>), Obj(<< <<DETECTED_HAZARDS, v>> >>) }

\* seeds inside up to n container layers
RECURSIVE Nested(_)
Nested(n) ==
    IF n = 0 THEN Seeds
    ELSE Seeds \cup UNION {Wrap(v) : v \in Nested(n - 1)}

\* key strings: every short string over the alphabet, the table's keys,
\* and names that Object.prototype defines
KeyAlphabet == {"a", "b", "A", "B", " "}
KeyInputs ==
    {Str(k) : k \in SeqsUpTo(KeyAlphabet, MaxKeyLen)
                    \cup {specialCases.props[i][1] : i \in DOMAIN specialCases.props}
                    \cup ObjectPrototypeMethods
                    \cup {ProtoAccessor, MESSAGE, TITLE, NOTES, HAZARD_DETAILS,
                          <<"R", "i", "s", "k", "R", "a", "t", "i", "n", "g">>,
                          <<"I", "t", "e", "m", "1">>,
                          <<"S", "E", "V", "E", "R", "I", "T", "Y">>,
                          <<"s", "u", "b", "C", "a", "t", "e", "g", "o", "r", "y">>} }

\* mappings of one field, one for every key string
KeyedObjects == {Obj(<< <<k.s, OK>> >>) : k \in KeyInputs}

\* the worked examples of the specification
Examples ==
    { Arr(<<Str(<<"a">>), Str(<<"b">>), Str(<<"c">>), Str(<<"d">>), Str(<<"e">>)>>),
      Obj(<< <<TITLE, Str(<<"F", "o", "r", "k", "l", "i", "f", "t">>)>>,
             <<HAZARD_DETAILS, Obj(<< <<TITLE, Str(<<"N", "e", "a", "r", " ", "M", "i", "s", "s">>)>> >>)>> >>),
      Obj(<< <<TITLE, Str(<<>>)>>, <<HAZARD_DETAILS, Obj(<< <<TITLE, Str(<<>>)>> >>)>> >>),
      Arr(<<OK, Obj(<< <<NOTES, OK>> >>), Null>>) }

\* markup strings the webhook may send, with back quotes and white space
MarkupAlphabet == {BackQuote, " ", "x"}
Markups ==
    SeqsUpTo(MarkupAlphabet, MaxMarkupLen)
        \cup { <<"<", "d", "i", "v", ">", "X", "<", "/", "d", "i", "v", ">">>,
               <<"\n", "<", "p", ">", "\n">> }

\* html_data strings: bare, fenced, fenced after a preamble, left open
HtmlStrings ==
    {Str(m) : m \in Markups}
        \cup {Str(FenceOpen \o m \o FenceClose) : m \in Markups}
        \cup { Str(<<"x", " ">> \o FenceOpen \o <<"y">> \o FenceClose \o <<"z">>),
               Str(FenceOpen \o <<"x">>) }

\* a structured html_data of the shape the component's interfaces declare
CapaData ==
    Obj(<< <<HAZARD_DETAILS,
             Obj(<< <<HAZARD_ID, Str(<<"H", "1">>)>>,
                    <<TITLE, Str(<<"N", "e", "a", "r", " ", "M", "i", "s", "s">>)>>,
                    <<<<"d", "e", "s", "c", "r", "i", "p", "t", "i", "o", "n">>, OK>>,
                    <<<<"l", "o", "c", "a", "t", "i", "o", "n">>, OK>>,
                    <<<<"c", "a", "t", "e", "g", "o", "r", "y">>, OK>>,
                    <<RISK_RATING, Str(<<"H", "i", "g", "h", " ", "(", "8", ")">>)>>,
                    <<<<"i", "m", "m", "e", "d", "i", "a", "t", "e", "A", "c", "t", "i", "o", "n">>, OK>>,
                    <<<<"r", "e", "p", "o", "r", "t", "D", "a", "t", "e">>, OK>> >>)>>,
           <<<<"c", "o", "r", "r", "e", "c", "t", "i", "v", "e", "A", "c", "t", "i", "o", "n", "s">>,
             Obj(<< <<<<"a", "c", "t", "i", "o", "n">>, Arr(<<OK, Num(7)>>)>>,
                    <<<<"r", "e", "s", "p", "o", "n", "s", "i", "b", "l", "e", "P", "e", "r", "s", "o", "n">>, OK>>,
                    <<<<"t", "i", "m", "e", "l", "i", "n", "e">>, OK>> >>)>>,
           <<<<"p", "r", "e", "v", "e", "n", "t", "i", "v", "e", "A", "c", "t", "i", "o", "n", "s">>,
             Obj(<< <<<<"a", "c", "t", "i", "o", "n">>, Arr(<<>>)>> >>)>>,
           <<<<"a", "d", "d", "i", "t", "i", "o", "n", "a", "l", "I", "n", "f", "o", "r", "m", "a", "t", "i", "o", "n">>,
             Obj(<< <<<<"r", "o", "o", "t", "C", "a", "u", "s", "e", "A", "n", "a", "l", "y", "s", "i", "s">>, OK>>,
                    <<<<"r", "i", "s", "k", "A", "s", "s", "e", "s", "s", "m", "e", "n", "t">>, Arr(<<OK, Null, OK>>)>>,
                    <<<<"c", "o", "m", "p", "l", "i", "a", "n", "c", "e", "R", "e", "f", "e", "r", "e", "n", "c", "e", "s">>,
                      Obj(<<>>)>> >>)>> >>)

\* html_data values that are no string
HtmlValues ==
    { CapaData, Obj(<<>>), Null, Num(7), Num(0), Bool(TRUE), Arr(<<OK>>), Arr(<<Str(FenceOpen)>>),
      Obj(<< <<TITLE, Str(<<"F", "o", "r", "k", "l", "i", "f", "t">>)>>,
             <<HAZARD_DETAILS, Obj(<< <<TITLE, Str(<<"N", "e", "a", "r", " ", "M", "i", "s", "s">>)>> >>)>> >>),
      Obj(<< <<HAZARD_DETAILS, Obj(<< <<TITLE, OK>>, <<RISK_RATING, Num(7)>> >>)>> >>),
      Obj(<< <<HAZARD_DETAILS, Obj(<< <<TITLE, OK>>, <<RISK_RATING, OK>> >>)>>,
             <<<<"c", "o", "r", "r", "e", "c", "t", "i", "v", "e", "A", "c", "t", "i", "o", "n", "s">>,
               Obj(<< <<<<"a", "c", "t", "i", "o", "n">>, OK>> >>)>> >>) }

\* bodies of the webhook's response
Responses ==
    {Obj(<< <<MESSAGE, OK>>, <<HTML_DATA, h>> >>) : h \in HtmlStrings \cup HtmlValues}
        \cup { Obj(<< <<HTML_DATA, Str(FenceOpen \o <<"x">> \o FenceClose)>>, <<NOTES, OK>> >>),
               Obj(<< <<MESSAGE, OK>> >>) }

Inputs ==
    Examples \cup FlatArrays \cup FlatObjects \cup IndexKeyObjects \cup Nested(MaxNest)
        \cup KeyInputs \cup KeyedObjects \cup Responses \cup {Undefined}

\* undefined: the argument left out
Titles == {Str(<<"X">>), Undefined}
Dates == {Str(<<"1", "1", "/", "3", "/", "2", "0", "2", "6">>)}
KeyArgs == {Undefined, Str(RISK_RATING), Str(NOTES)}

---------------------------------------------------------------------------
(* The state machine: one input, one call.                                 *)

\* what JSON.parse / response.json() can return
IsJSON(v) == v # Undefined

argumentAfterCallSkippedDeleted(value) ==
    IF isObject(value)
    THEN Obj(SelectSeq(value.props, LAMBDA entry : ~isSkippedKey(Str(entry[1]))))
    ELSE value

\* the value a rendering operation was given, as the call leaves it: the
\* operations read it (Object.entries, every, map, filter, join,
\* JSON.stringify, String) and assign to locals only, never to a property
\* or an element of it
argumentAfterCall(value) == value

Init ==
    /\ input \in Inputs
    /\ called = "none"
    /\ argDepth = 0
    /\ argKey = Undefined
    /\ argTitle = Undefined
    /\ argToday = Undefined
    /\ result = Undefined
    /\ posts = <<>>
    /\ ui = Undefined
    /\ calls = <<>>
    /\ frames = <<>>

CallGenerateHtmlFromData ==
    /\ called = "none"
    /\ \E t \in Titles, d \in Dates :
        /\ argTitle' = t
        /\ argToday' = d
        /\ result' = generateHtmlFromData(input, t, d)
    /\ called' = "generateHtmlFromData"
    /\ input' = argumentAfterCall(input)
    /\ UNCHANGED <<frames, argDepth, argKey, posts, ui, calls>>

CallRenderObject ==
    /\ called = "none"
    /\ isObject(input)
    /\ \E d \in 0..MaxDepthArg :
        /\ argDepth' = d
        /\ result' = renderObject(input, d)
    /\ called' = "renderObject"
    /\ input' = argumentAfterCall(input)
    /\ UNCHANGED <<frames, argKey, argTitle, argToday, posts, ui, calls>>

CallRenderArray ==
    /\ called = "none"
    /\ isArray(input)
    /\ \E d \in 0..MaxDepthArg :
        /\ argDepth' = d
        /\ result' = renderArray(input, Undefined, d)
    /\ called' = "renderArray"
    /\ input' = argumentAfterCall(input)
    /\ UNCHANGED <<frames, argKey, argTitle, argToday, posts, ui, calls>>

CallRenderPrimitive ==
    /\ called = "none"
    /\ isPrimitive(input)
    /\ \E k \in KeyArgs :
        /\ argKey' = k
        /\ result' = renderPrimitive(input, k)
    /\ called' = "renderPrimitive"
    /\ input' = argumentAfterCall(input)
    /\ UNCHANGED <<frames, argDepth, argTitle, argToday, posts, ui, calls>>

CallEnsureArray ==
    /\ called = "none"
    /\ result' = ensureArray(input)
    /\ called' = "ensureArray"
    /\ input' = argumentAfterCall(input)
    /\ UNCHANGED <<frames, argDepth, argKey, argTitle, argToday, posts, ui, calls>>

CallEnsureString ==
    /\ called = "none"
    /\ result' = ensureString(input)
    /\ called' = "ensureString"
    /\ input' = argumentAfterCall(input)
    /\ UNCHANGED <<frames, argDepth, argKey, argTitle, argToday, posts, ui, calls>>

CallFormatKeyName ==
    /\ called = "none"
    /\ typeof(input) = "string"
    /\ result' = formatKeyName(input)
    /\ called' = "formatKeyName"
    /\ UNCHANGED <<frames, input, argDepth, argKey, argTitle, argToday, posts, ui, calls>>

CallIsHighlightKey ==
    /\ called = "none"
    /\ typeof(input) = "string"
    /\ result' = Bool(isHighlightKey(input))
    /\ called' = "isHighlightKey"
    /\ UNCHANGED <<frames, input, argDepth, argKey, argTitle, argToday, posts, ui, calls>>

\* the three type guards, applied to a value met at some render depth
CallTypeGuards ==
    /\ called = "none"
    /\ \E d \in 0..MaxDepthArg : argDepth' = d
    /\ result' = Arr(<<Bool(isPrimitive(input)), Bool(isArray(input)), Bool(isObject(input))>>)
    /\ called' = "isPrimitive, isArray, isObject"
    /\ UNCHANGED <<frames, input, argKey, argTitle, argToday, posts, ui, calls>>

\* capa-generator.tsx: generateReport from the parsed response body on
CallGenerateReport ==
    /\ called = "none"
    /\ IsJSON(input)
    /\ result' = settledData(input)
    /\ called' = "generateReport"
    /\ UNCHANGED <<frames, input, argDepth, argKey, argTitle, argToday, posts, ui, calls>>

\* part_003: generateReport from the parsed response body on
CallGenerateReportStructured ==
    /\ called = "none"
    /\ IsJSON(input)
    /\ \E d \in Dates :
        /\ argToday' = d
        /\ result' = settledResult(input, d)
    /\ called' = "generateReport (part_003)"
    /\ UNCHANGED <<frames, input, argDepth, argKey, argTitle, posts, ui, calls>>

Next ==
    \/ CallGenerateHtmlFromData
    \/ CallRenderObject
    \/ CallRenderArray
    \/ CallRenderPrimitive
    \/ CallEnsureArray
    \/ CallEnsureString
    \/ CallFormatKeyName
    \/ CallIsHighlightKey
    \/ CallTypeGuards
    \/ CallGenerateReport
    \/ CallGenerateReportStructured

Spec == Init /\ [][Next]_vars

---------------------------------------------------------------------------
(* The proxy: POST of app/api/generate-capa.                               *)

\* statuses the remote webhook answers with
Statuses == {200, 204, 304, 404, 500, 999}

\* what axios makes of the remote body: parsed JSON, or '' for no body
Payloads == {Obj(<< <<MESSAGE, OK>>, <<HTML_DATA, Str(<<"x">>)>> >>), Str(<<>>)}

\* the reason phrase that came with the status
statusText(status) == Str(<<"H", "T", "T", "P", " ">> \o NatToString(status))

\* what axios.post resolves to (validateStatus: () => true)
RemoteResponses ==
    {[status |-> st, data |-> d, statusText |-> statusText(st)] : st \in Statuses, d \in Payloads}

\* what the awaits throw: axios errors without and with a response, and the
\* error of req.formData()
AxiosErrors ==
    { [isAxiosError |-> TRUE, message |-> Lit("Network Error"), response |-> Undefined],
      [isAxiosError |-> TRUE, message |-> Lit("maxContentLength size of -1 exceeded"),
       response |-> [status |-> 502, data |-> Str(<<"x">>), statusText |-> statusText(502)]] }
FormDataError ==
    [isAxiosError |-> FALSE, message |-> Lit("Failed to parse body as FormData."),
     response |-> Undefined]

\* what new Response(body, { status }) throws for a status outside 200..599
RangeError ==
    [isAxiosError |-> FALSE,
     message |-> Lit("init[\"status\"] must be in the range of 200 to 599, inclusive."),
     response |-> Undefined]

\* NextResponse.json(body, { status })
NextResponseJson(body, status) ==
    IF status < 200 \/ status > 599 THEN Throw
    ELSE [tag |-> "response", status |-> status, body |-> body]

\* the part of the try block after axios.post has resolved
responded(response) ==
    IF response.status >= 400
    THEN NextResponseJson(
            Obj(<< <<MESSAGE, Lit("n8n webhook error")>>,
                   <<<<"s", "t", "a", "t", "u", "s">>, Num(response.status)>>,
                   <<<<"e", "r", "r", "o", "r">>,
                     IF ToBoolean(response.data) THEN response.data ELSE response.statusText>> >>),
            response.status)
    ELSE NextResponseJson(response.data, 200)

\* the catch block answering every error as an internal one
caughtAsInternal(error) ==
    NextResponseJson(
        Obj(<< <<MESSAGE, Lit("Internal Server Error")>>,
               <<<<"e", "r", "r", "o", "r">>, error.message>> >>),
        500)

\* the catch block
caught(error) ==
    IF error.isAxiosError
    THEN NextResponseJson(
            Obj(<< <<MESSAGE, Lit("Network error while connecting to n8n")>>,
                   <<<<"e", "r", "r", "o", "r">>, error.message>>,
                   <<<<"d", "e", "t", "a", "i", "l", "s">>,
                     IF error.response = Undefined THEN Undefined ELSE error.response.data>> >>),
            IF error.response = Undefined \/ error.response.status = 0
            THEN 500 ELSE error.response.status)
    ELSE NextResponseJson(
            Obj(<< <<MESSAGE, Lit("Internal Server Error")>>,
                   <<<<"e", "r", "r", "o", "r">>, error.message>> >>),
            500)

\* the requests sent to the webhook once axios.post has been called
sentAfterPost(sent) == sent + 1

InitProxy ==
    /\ posts = <<>>
    /\ input = Undefined
    /\ called = "none"
    /\ argDepth = 0
    /\ argKey = Undefined
    /\ argTitle = Undefined
    /\ argToday = Undefined
    /\ result = Undefined
    /\ ui = Undefined
    /\ calls = <<>>
    /\ frames = <<>>

\* a request arrives: POST runs up to await req.formData()
Post ==
    /\ Len(posts) < MaxPosts
    /\ posts' = Append(posts, [pc |-> "formData", sent |-> 0, remote |-> Undefined,
                                thrown |-> Undefined, response |-> Undefined])
    /\ UNCHANGED <<frames, input, called, argDepth, argKey, argTitle, argToday, result, ui, calls>>

\* req.formData() resolves: axios.post is called, POST runs up to its await
FormDataResolves ==
    /\ \E i \in DOMAIN posts :
        /\ posts[i].pc = "formData"
        /\ posts' = [posts EXCEPT ![i].pc = "post", ![i].sent = sentAfterPost(@)]
    /\ UNCHANGED <<frames, input, called, argDepth, argKey, argTitle, argToday, result, ui, calls>>

\* req.formData() rejects: the catch block answers
FormDataRejects ==
    /\ \E i \in DOMAIN posts :
        /\ posts[i].pc = "formData"
        /\ posts' = [posts EXCEPT ![i].pc = "done", ![i].thrown = FormDataError,
                                  ![i].response = caught(FormDataError)]
    /\ UNCHANGED <<frames, input, called, argDepth, argKey, argTitle, argToday, result, ui, calls>>

\* axios.post resolves with the remote's answer: the rest of the try block,
\* and the catch block if NextResponse.json throws in it
AxiosResolves ==
    /\ \E i \in DOMAIN posts, response \in RemoteResponses :
        /\ posts[i].pc = "post"
        /\ posts' = IF IsThrow(responded(response))
                    THEN [posts EXCEPT ![i].pc = "done", ![i].remote = response,
                                       ![i].thrown = RangeError,
                                       ![i].response = caught(RangeError)]
                    ELSE [posts EXCEPT ![i].pc = "done", ![i].remote = response,
                                       ![i].response = responded(response)]
    /\ UNCHANGED <<frames, input, called, argDepth, argKey, argTitle, argToday, result, ui, calls>>

\* axios.post rejects: the catch block answers
AxiosRejects ==
    /\ \E i \in DOMAIN posts, error \in AxiosErrors :
        /\ posts[i].pc = "post"
        /\ posts' = [posts EXCEPT ![i].pc = "done", ![i].remote = error.response,
                                  ![i].thrown = error, ![i].response = caught(error)]
    /\ UNCHANGED <<frames, input, called, argDepth, argKey, argTitle, argToday, result, ui, calls>>

NextProxy ==
    \/ Post
    \/ FormDataResolves
    \/ FormDataRejects
    \/ AxiosResolves
    \/ AxiosRejects

SpecProxy == InitProxy /\ [][NextProxy]_vars

---------------------------------------------------------------------------
(* The component: CapaGenerator's state and its handlers.                  *)

\* the two copies of the component
Components == {"capa-generator.tsx", "part_003"}

File(name) == [tag |-> "file", name |-> name]

\* what await fetch(webhook) settles with
FetchOutcomes ==
    { [settled |-> "resolved", ok |-> TRUE, status |-> 200],
      [settled |-> "resolved", ok |-> FALSE, status |-> 404],
      [settled |-> "resolved", ok |-> FALSE, status |-> 500],
      [settled |-> "rejected", ok |-> FALSE, status |-> 0] }

\* what await response.json() resolves to
ResponseBodies ==
    { Obj(<< <<MESSAGE, OK>>, <<HTML_DATA, Str(FenceOpen \o <<"x">> \o FenceClose)>> >>),
      Obj(<< <<MESSAGE, Lit("Image Not Found")>> >>),
      Obj(<< <<MESSAGE, OK>>, <<HTML_DATA, Obj(<<>>)>> >>) }

\* the statements of generateReport before the try block
started(state) == [state EXCEPT !.isProcessing = TRUE, !.error = Null, !.progress = 0]

\* the catch block with the finally block left out
failedStillProcessing(state, message) == [state EXCEPT !.error = message, !.progress = 0]

\* the catch block followed by the finally block
failed(state, message) ==
    [state EXCEPT !.error = message, !.progress = 0, !.isProcessing = FALSE]

\* the end of the try block followed by the finally block
succeeded(state, data) ==
    [state EXCEPT !.result = data, !.progress = 100, !.isProcessing = FALSE]

\* the updater handed to setProgress by the interval callback
tick(prev) == IF prev >= 90 THEN 90 ELSE prev + 10

\* what the try block makes of the parsed body, in either copy
settle(component, data) ==
    IF component = "part_003" THEN settledResult(data, CHOOSE d \in Dates : TRUE)
    ELSE settledData(data)

\* the requests sent to the webhook once fetch has been called
sentAfterFetch(sent) == sent + 1

\* generateReport(fileToUse) up to await fetch(...)
invoked(fileToUse, sent) ==
    [pc |-> "fetch", file |-> fileToUse, sent |-> sentAfterFetch(sent), timer |-> TRUE,
     remote |-> Undefined]

InitReport ==
    /\ ui \in { [component |-> c, file |-> Null, isProcessing |-> FALSE, result |-> Null,
                 error |-> Null, progress |-> 0] : c \in Components }
    /\ calls = <<>>
    /\ posts = <<>>
    /\ frames = <<>>
    /\ input = Undefined
    /\ called = "none"
    /\ argDepth = 0
    /\ argKey = Undefined
    /\ argTitle = Undefined
    /\ argToday = Undefined
    /\ result = Undefined

\* a drop on the dropzone: a PNG is accepted, anything else leaves acceptedFiles empty
onDrop ==
    /\ \E selectedFile \in {File("hazard.png"), Undefined} :
        ui' = IF selectedFile # Undefined
              THEN [ui EXCEPT !.file = selectedFile, !.result = Null, !.error = Null]
              ELSE [ui EXCEPT !.error = Lit("Please select a PNG image file only.")]
    /\ UNCHANGED <<frames, input, called, argDepth, argKey, argTitle, argToday, result, posts, calls>>

\* the Generate button (disabled={!file || isProcessing}): generateReport()
ClickGenerate ==
    /\ ui.file # Null
    /\ ~ui.isProcessing
    /\ Len(calls) < MaxCalls
    /\ ui' = started(ui)
    /\ calls' = Append(calls, invoked(ui.file, 0))
    /\ UNCHANGED <<frames, input, called, argDepth, argKey, argTitle, argToday, result, posts>>

\* the Try Example button (disabled={isProcessing}): tryExampleImage up to
\* await fetch('/no-helmet.png')
ClickTryExample ==
    /\ ~ui.isProcessing
    /\ Len(calls) < MaxCalls
    /\ calls' = Append(calls, [pc |-> "example", file |-> Null, sent |-> 0, timer |-> FALSE,
                                remote |-> Undefined])
    /\ UNCHANGED <<frames, input, called, argDepth, argKey, argTitle, argToday, result, posts, ui>>

\* the example image has loaded (generateReport(file) starts) or has not
ExampleSettles ==
    /\ \E i \in DOMAIN calls, loaded \in BOOLEAN :
        /\ calls[i].pc = "example"
        /\ IF loaded
           THEN /\ ui' = started(ui)
                /\ calls' = [calls EXCEPT ![i] = invoked(File("no-helmet.png"), calls[i].sent)]
           ELSE /\ ui' = [ui EXCEPT !.error = Lit("Failed to load example image")]
                /\ calls' = [calls EXCEPT ![i].pc = "done"]
    /\ UNCHANGED <<frames, input, called, argDepth, argKey, argTitle, argToday, result, posts>>

\* the interval callback of a call whose timer has not been cleared
Tick ==
    /\ \E i \in DOMAIN calls :
        /\ calls[i].timer
        /\ ui' = [ui EXCEPT !.progress = tick(@)]
        /\ calls' = [calls EXCEPT ![i].timer = ~(ui.progress >= 90)]
    /\ UNCHANGED <<frames, input, called, argDepth, argKey, argTitle, argToday, result, posts>>

\* await fetch(...) settles: an OK response goes on to response.json(), any
\* other outcome to the catch block
FetchSettles ==
    /\ \E i \in DOMAIN calls, response \in FetchOutcomes :
        /\ calls[i].pc = "fetch"
        /\ IF response.ok
           THEN /\ calls' = [calls EXCEPT ![i].pc = "json", ![i].remote = response]
                /\ ui' = ui
           ELSE /\ calls' = [calls EXCEPT ![i].pc = "done", ![i].remote = response,
                                          ![i].timer = FALSE]
                /\ ui' = failed(ui, IF response.settled = "rejected"
                                    THEN Lit("Failed to fetch")
                                    ELSE Template(<<Lit("HTTP error! status: "),
                                                    Num(response.status)>>))
    /\ UNCHANGED <<frames, input, called, argDepth, argKey, argTitle, argToday, result, posts>>

\* await response.json() settles: the rest of the try block, or the catch block
JsonSettles ==
    /\ \E i \in DOMAIN calls, parsed \in BOOLEAN, data \in ResponseBodies :
        /\ calls[i].pc = "json"
        /\ calls' = [calls EXCEPT ![i].pc = "done", ![i].timer = FALSE]
        /\ ui' = IF ~parsed THEN failed(ui, Lit("Unexpected end of JSON input"))
                 ELSE IF IsThrow(settle(ui.component, data))
                 THEN failed(ui, Lit("TypeError"))
                 ELSE succeeded(ui, settle(ui.component, data))
    /\ UNCHANGED <<frames, input, called, argDepth, argKey, argTitle, argToday, result, posts>>

\* the Reset button (rendered while a file is selected)
reset ==
    /\ ui.file # Null
    /\ ui' = [ui EXCEPT !.file = Null, !.result = Null, !.error = Null, !.progress = 0]
    /\ UNCHANGED <<frames, input, called, argDepth, argKey, argTitle, argToday, result, posts, calls>>

NextReport ==
    \/ onDrop
    \/ ClickGenerate
    \/ ClickTryExample
    \/ ExampleSettles
    \/ Tick
    \/ FetchSettles
    \/ JsonSettles
    \/ reset

SpecReport == InitReport /\ [][NextReport]_vars

\* every request settles, and the code after an await runs once it has
FairReport == SpecReport /\ WF_vars(FetchSettles) /\ WF_vars(JsonSettles)

---------------------------------------------------------------------------
(* The renderer's recursion, one call and one return at a time.            *)

\* the calls a call of renderObject / renderArray makes itself, in the order
\* of the entries or elements
callsBelow(call) ==
    LET all == IF call.op = "renderObject"
               THEN objectCalls(call.arg, call.path, call.depth)
               ELSE arrayCalls(call.arg, call.path, call.depth)
        own == {c \in all : Len(c.path) = Len(call.path) + 1}
    IN [n \in 1..Cardinality(own) |->
            CHOOSE c \in own :
                Cardinality({e \in own : e.path[Len(e.path)] < c.path[Len(c.path)]}) = n - 1]

\* generateHtmlFromData(data) has called renderObject or renderArray on the
\* root, or neither for a value that is no container
InitRender ==
    /\ input \in Inputs
    /\ frames = IF bodyCalls(input) = {} THEN <<>>
                ELSE LET root == CHOOSE c \in bodyCalls(input) : c.path = <<>>
                     IN <<[call |-> root, todo |-> callsBelow(root)]>>
    /\ called = "none"
    /\ argDepth = 0
    /\ argKey = Undefined
    /\ argTitle = Undefined
    /\ argToday = Undefined
    /\ result = Undefined
    /\ posts = <<>>
    /\ ui = Undefined
    /\ calls = <<>>

\* the call under way makes its next recursive call
Descend ==
    /\ frames # <<>>
    /\ frames[Len(frames)].todo # <<>>
    /\ LET top == frames[Len(frames)]
           next == Head(top.todo)
       IN frames' = Append([frames EXCEPT ![Len(frames)].todo = Tail(top.todo)],
                           [call |-> next, todo |-> callsBelow(next)])
    /\ UNCHANGED <<input, called, argDepth, argKey, argTitle, argToday, result, posts, ui, calls>>

\* the call under way has made all its calls and returns
Return ==
    /\ frames # <<>>
    /\ frames[Len(frames)].todo = <<>>
    /\ LET top == frames[Len(frames)].call
       IN /\ frames' = SubSeq(frames, 1, Len(frames) - 1)
          /\ called' = top.op
          /\ argDepth' = top.depth
    /\ UNCHANGED <<input, argKey, argTitle, argToday, result, posts, ui, calls>>

NextRender ==
    \/ Descend
    \/ Return

SpecRender == InitRender /\ [][NextRender]_vars

\* the interpreter runs a call to completion: it never stops between two steps
FairRender == SpecRender /\ WF_vars(NextRender)

---------------------------------------------------------------------------
(* Reading a rendered document.                                            *)

ContentMarker == "\n      </div>\n\n      <!-- Content -->\n      "
FooterMarker == "\n\n      <!-- Footer -->\n      <div style=\"margin-top: 50px; text-align: center; border-top: 1px solid #e5e7eb; padding-top: 20px;\">\n        <p style=\"color: #9ca3af; font-size: 12px;\">Generated by AI Report Generator \\u2022 "
PlaceholderNode == "<p style=\"margin: 0; color: #9ca3af; font-style: italic;\">No data available</p>"

Positions(s, piece) == {i \in DOMAIN s : s[i] = piece}

\* the pieces between the content marker and the footer marker
Body(s) ==
    LET from == CHOOSE i \in Positions(s, ContentMarker) : TRUE
        to == CHOOSE i \in Positions(s, FooterMarker) : TRUE
    IN SubSeq(s, from + 1, to - 1)

HasBody(s) ==
    /\ Cardinality(Positions(s, ContentMarker)) = 1
    /\ Cardinality(Positions(s, FooterMarker)) = 1

\* t occurs in s as a contiguous run
ContainsSub(s, t) == includes(s, t)

---------------------------------------------------------------------------
(* Claims.                                                                 *)

\* C1: for every JSON value and every title, generateHtmlFromData returns a
\* string and does not throw; a value that is no mapping and no sequence
\* (a primitive, null) is rendered as one plain paragraph of its string form.
C1_AssembleTotal ==
    (called = "generateHtmlFromData" /\ IsJSON(input)) =>
        /\ ~IsThrow(result)
        /\ typeof(result) = "string"
        /\ HasBody(result.s)
        /\ (~isObject(input) /\ ~isArray(input)) =>
                Body(result.s) = renderPrimitive(ensureString(input), Undefined).s

C1_Witness ==
    /\ called = "generateHtmlFromData"
    /\ input = Obj(<< <<HAZARD_DETAILS, Arr(<<Arr(<<Null, OK>>), OK>>)>> >>)
    /\ typeof(result) = "string"

\* C2: generateHtmlFromData({}, t) and generateHtmlFromData([], t) have the
\* same body, and that body is the 'No data available' placeholder node alone.
C2_EmptyBodies ==
    (called = "generateHtmlFromData" /\ input \in {Obj(<<>>), Arr(<<>>)}) =>
        /\ Body(result.s) = <<PlaceholderNode>>
        /\ Body(result.s) = Body(generateHtmlFromData(Obj(<<>>), argTitle, argToday).s)
        /\ Body(result.s) = Body(generateHtmlFromData(Arr(<<>>), argTitle, argToday).s)

C2_Witness ==
    /\ called = "generateHtmlFromData"
    /\ input = Obj(<<>>)
    /\ argTitle = Str(<<"X">>)
    /\ Body(result.s) = <<PlaceholderNode>>

WrapperOpen == "\n    <div style=\"display: flex; flex-direction: column; gap: 12px;\">\n      "
WrapperClose == "\n    </div>\n  "

IsReserved(name) == name \in {MESSAGE, HTML_DATA}

\* an entry that renders nothing: a reserved key, or an absent value
ProducesNothing(prop) == IsReserved(prop[1]) \/ prop[2] \in {Null, Undefined}

AllSilent(obj) ==
    /\ obj.props # <<>>
    /\ \A i \in DOMAIN obj.props : ProducesNothing(obj.props[i])

\* C3 as stated: a non-empty mapping all of whose entries produce no output
\* is rendered as the 'No data available' placeholder.
C3_SilentIsPlaceholder ==
    (called = "renderObject" /\ AllSilent(input)) => result = Lit(PlaceholderNode)

\* C3 amended: a non-empty mapping all of whose entries produce no output is
\* rendered as the field-stack wrapper with nothing inside; renderObject
\* returns the placeholder exactly when the mapping has no entries.
C3_SilentIsEmptyWrapper ==
    called = "renderObject" =>
        /\ AllSilent(input) => result = Str(<<WrapperOpen, WrapperClose>>)
        /\ (result = Lit(PlaceholderNode)) <=> (input.props = <<>>)

C3_Witness ==
    /\ called = "renderObject"
    /\ input = Obj(<< <<MESSAGE, OK>>, <<NOTES, Null>> >>)
    /\ result = Str(<<WrapperOpen, WrapperClose>>)

CaptionOpen == "\n            <div>\n              <p style=\"margin: 0 0 4px 0; color: #6b7280; font-size: 13px; text-transform: uppercase; letter-spacing: 0.5px; font-weight: 600;\">"
CaptionClose == "</p>\n              "

RECURSIVE Ascending(_)
Ascending(S) ==
    IF S = {} THEN <<>>
    ELSE LET least == CHOOSE x \in S : \A y \in S : x <= y
         IN <<least>> \o Ascending(S \ {least})

\* the pieces from position p + 1 up to the next occurrence of closer
TextAfter(s, p, closer) ==
    LET q == CHOOSE i \in (p + 1)..Len(s) :
                 s[i] = closer /\ \A j \in (p + 1)..(i - 1) : s[j] # closer
    IN SubSeq(s, p + 1, q - 1)

\* the captions of the primitive-valued field blocks, in document order
FieldLabels(s) ==
    LET at == Ascending(Positions(s, CaptionOpen))
    IN [i \in DOMAIN at |-> TextAfter(s, at[i], CaptionClose)]

LabelOf(name) == JSToString(formatKeyName(Str(name))).s

\* a mapping whose values are all primitives or null
LeafValued(obj) ==
    \A i \in DOMAIN obj.props : isPrimitive(obj.props[i][2]) \/ obj.props[i][2] = Null

\* the entries that render a field block, in creation order
RenderedProps(obj) ==
    SelectSeq(obj.props, LAMBDA prop : ~IsReserved(prop[1]) /\ isPrimitive(prop[2]))

\* the mapping without its reserved entries, at every place where a mapping
\* is rendered as a mapping: the root, a mapping-valued field, a mapping
\* element of a sequence that is the root or a field
RECURSIVE Strip(_)
Strip(v) ==
    IF isObject(v)
    THEN LET kept == SelectSeq(v.props, LAMBDA prop : ~IsReserved(prop[1]))
         IN Obj([i \in DOMAIN kept |-> <<kept[i][1], Strip(kept[i][2])>>])
    ELSE IF isArray(v)
    THEN Arr([i \in DOMAIN v.items |->
                IF isObject(v.items[i]) THEN Strip(v.items[i]) ELSE v.items[i]])
    ELSE v

\* no mapping rendered as a mapping consists of reserved entries only
RECURSIVE KeepsAnEntry(_)
KeepsAnEntry(v) ==
    IF isObject(v)
    THEN /\ v.props # <<>> => \E i \in DOMAIN v.props : ~IsReserved(v.props[i][1])
         /\ \A i \in DOMAIN v.props :
                IsReserved(v.props[i][1]) \/ KeepsAnEntry(v.props[i][2])
    ELSE IF isArray(v)
    THEN \A i \in DOMAIN v.items : isObject(v.items[i]) => KeepsAnEntry(v.items[i])
    ELSE TRUE

\* C4 as stated: the reserved entries contribute nothing and the captions of
\* the other entries follow the order in which the mapping's entries were
\* created.
C4_CreationOrder ==
    (called = "renderObject" /\ LeafValued(input)) =>
        FieldLabels(result.s) =
            [i \in DOMAIN RenderedProps(input) |-> LabelOf(RenderedProps(input)[i][1])]

\* entry a is enumerated before entry b: array-index keys first, ascending;
\* then the other keys in creation order
EnumeratedBefore(props, a, b) ==
    LET ka == props[a][1]
        kb == props[b][1]
    IN \/ IsArrayIndex(ka) /\ ~IsArrayIndex(kb)
       \/ IsArrayIndex(ka) /\ IsArrayIndex(kb) /\ IndexValue(ka) < IndexValue(kb)
       \/ ~IsArrayIndex(ka) /\ ~IsArrayIndex(kb) /\ a < b

LabelPosition(labels, name) == CHOOSE j \in DOMAIN labels : labels[j] = LabelOf(name)

\* C4 amended: at every depth the entries with key 'message' or 'html_data'
\* contribute no output (the rendering equals that of the mapping without
\* them), and the other entries appear in the order Object.entries gives:
\* keys that are array indices first, in ascending numeric order, then the
\* remaining keys in creation order.
C4_EntriesOrder ==
    /\ (called = "renderObject" /\ KeepsAnEntry(input)) =>
            result = renderObject(Strip(input), argDepth)
    /\ (called = "generateHtmlFromData" /\ (isObject(input) \/ isArray(input))
            /\ KeepsAnEntry(input)) =>
            Body(result.s) = Body(generateHtmlFromData(Strip(input), argTitle, argToday).s)
    /\ (called = "renderObject" /\ LeafValued(input)) =>
            LET labels == FieldLabels(result.s)
                rendered == RenderedProps(input)
            IN /\ Len(labels) = Len(rendered)
               /\ \A i \in DOMAIN rendered :
                      \E j \in DOMAIN labels : labels[j] = LabelOf(rendered[i][1])
               /\ \A a, b \in DOMAIN rendered :
                      a # b =>
                        (LabelPosition(labels, rendered[a][1]) < LabelPosition(labels, rendered[b][1])
                            <=> EnumeratedBefore(rendered, a, b))

C4_Witness ==
    /\ called = "renderObject"
    /\ input = Obj(<< <<NOTES, Num(7)>>, <<<<"2">>, Num(7)>>, <<<<"1">>, Num(7)>> >>)
    /\ FieldLabels(result.s) = << <<"1">>, <<"2">>, <<"N", "o", "t", "e", "s">> >>

TableKeys == {specialCases.props[i][1] : i \in DOMAIN specialCases.props}

HazardIdLabel == <<"H", "a", "z", "a", "r", "d", " ", "I", "D">>

\* v holds a primitive 'hazardId' field in a mapping that is rendered as a
\* mapping (see Strip), at whatever depth
RECURSIVE RendersHazardId(_)
RendersHazardId(v) ==
    IF isObject(v)
    THEN \E i \in DOMAIN v.props :
            \/ v.props[i][1] = HAZARD_ID /\ isPrimitive(v.props[i][2])
            \/ ~IsReserved(v.props[i][1]) /\ RendersHazardId(v.props[i][2])
    ELSE IF isArray(v)
    THEN \E i \in DOMAIN v.items : isObject(v.items[i]) /\ RendersHazardId(v.items[i])
    ELSE FALSE

\* C5: formatKeyName returns the table's label for every key of the table
\* ('hazardId' gives 'Hazard ID'), not the generic transform of the key, and
\* a 'hazardId' field is captioned 'Hazard ID' at every nesting depth.
C5_TableLabels ==
    /\ (called = "formatKeyName" /\ input.s \in TableKeys) =>
            /\ result = OwnValue(specialCases, input.s)
            /\ input.s = HAZARD_ID => result = Str(HazardIdLabel)
    /\ (called \in {"generateHtmlFromData", "renderObject", "renderArray"}
            /\ RendersHazardId(input)) =>
            ContainsSub(result.s, <<CaptionOpen>> \o HazardIdLabel \o <<CaptionClose>>)

C5_Witness ==
    /\ called = "generateHtmlFromData"
    /\ input = Obj(<< <<HAZARD_DETAILS,
                        Arr(<< Obj(<< <<DETECTED_HAZARDS,
                                        Obj(<< <<HAZARD_ID, Str(<<"H", "1">>)>> >>)>> >>), OK >>)>> >>)
    /\ ContainsSub(result.s, <<CaptionOpen>> \o HazardIdLabel \o <<CaptionClose>>)

\* the transform C6 describes: a space before every uppercase letter that is
\* not the first character, the first character uppercased, the ends trimmed
SpaceBeforeInnerUpper(s) ==
    Flatten([i \in DOMAIN s |-> IF i > 1 /\ IsUpper(s[i]) THEN <<" ", s[i]>> ELSE <<s[i]>>])

DescribedTransform(s) == trim(replaceFirstWithUpper(SpaceBeforeInnerUpper(s)))

\* C6: for every key that is no entry of the table, formatKeyName returns the
\* described transform of the key.
C6_GenericTransform ==
    (called = "formatKeyName" /\ input.s \notin TableKeys) =>
        result = Str(DescribedTransform(input.s))

\* the same, for the keys that Object.prototype does not define
C6_GenericTransformOwnNames ==
    (called = "formatKeyName" /\ input.s \notin TableKeys
        /\ input.s \notin ObjectPrototypeMethods \cup {ProtoAccessor}) =>
        result = Str(DescribedTransform(input.s))

EmphasizedOpen == "<p style=\"margin: 0; font-weight: 600; color: #111827; line-height: 1.6;\">"
PlainOpen == "<p style=\"margin: 0; color: #4b5563; line-height: 1.6;\">"

HighlightSubstrings ==
    { <<"t", "i", "t", "l", "e">>,
      <<"d", "e", "s", "c", "r", "i", "p", "t", "i", "o", "n">>,
      <<"h", "a", "z", "a", "r", "d">>,
      <<"a", "c", "t", "i", "o", "n">>,
      <<"r", "i", "s", "k">>,
      <<"s", "e", "v", "e", "r", "i", "t", "y">>,
      <<"c", "a", "t", "e", "g", "o", "r", "y">>,
      <<"l", "o", "c", "a", "t", "i", "o", "n">>,
      <<"i", "m", "m", "e", "d", "i", "a", "t", "e", "a", "c", "t", "i", "o", "n">>,
      <<"r", "i", "s", "k", "r", "a", "t", "i", "n", "g">> }

ContainsHighlight(name) ==
    \E sub \in HighlightSubstrings : includes(toLowerCase(name), sub)

\* C7: the primitive value of a mapping field opens with the emphasized
\* paragraph style if and only if the lowercase form of the field's key
\* contains a highlight substring; otherwise it opens with the plain style.
\* 'riskRating' is emphasized, 'notes' is not.
C7_HighlightIff ==
    /\ (called = "renderObject" /\ LeafValued(input)) =>
            LET at == Ascending(Positions(result.s, CaptionOpen))
                rendered == RenderedProps(input)
            IN /\ Len(at) = Len(rendered)
               /\ \A i \in DOMAIN at :
                    LET label == TextAfter(result.s, at[i], CaptionClose)
                        opener == result.s[at[i] + Len(label) + 2]
                    IN \E r \in DOMAIN rendered :
                        /\ LabelOf(rendered[r][1]) = label
                        /\ opener \in {EmphasizedOpen, PlainOpen}
                        /\ opener = EmphasizedOpen <=> ContainsHighlight(rendered[r][1])
    /\ (called = "renderObject" /\ input = Obj(<< <<RISK_RATING, OK>> >>)) =>
            ContainsSub(result.s, <<CaptionClose, EmphasizedOpen, "o", "k">>)
    /\ (called = "renderObject" /\ input = Obj(<< <<NOTES, OK>> >>)) =>
            ContainsSub(result.s, <<CaptionClose, PlainOpen, "o", "k">>)

C7_Witness ==
    /\ called = "renderObject"
    /\ input = Obj(<< <<NOTES, OK>>, <<RISK_RATING, Num(7)>> >>)
    /\ ContainsSub(result.s, <<CaptionClose, PlainOpen, "o", "k">>)
    /\ ContainsSub(result.s, <<CaptionClose, EmphasizedOpen, "7">>)

ListOpen == "\n      <ul style=\"padding-left: 20px; margin: 8px 0; line-height: 1.8;\">\n        "
ListClose == "\n      </ul>\n    "
ItemOpen == "<li style=\"margin-bottom: 6px; color: #4b5563;\">"
ItemClose == "</li>"

\* C8: a non-empty sequence of primitives is rendered by renderArray as one
\* bulleted list holding exactly one item per element, in the order of the
\* elements, the text of each item being ensureString of its element, and
\* nothing else.
C8_BulletedList ==
    (called = "renderArray" /\ input.items # <<>>
        /\ \A i \in DOMAIN input.items : isPrimitive(input.items[i])) =>
        LET s == result.s
            at == Ascending(Positions(s, ItemOpen))
            texts == [i \in DOMAIN input.items |-> ensureString(input.items[i]).s]
        IN /\ Head(s) = ListOpen
           /\ s[Len(s)] = ListClose
           /\ Len(at) = Len(input.items)
           /\ \A i \in DOMAIN at : TextAfter(s, at[i], ItemClose) = texts[i]
           /\ Len(s) = 2 + 2 * Len(input.items) + Len(Flatten(texts))

C8_Witness ==
    /\ called = "renderArray"
    /\ input = Arr(<<Str(<<"a">>), Str(<<"b">>), Str(<<"c">>), Str(<<"d">>), Str(<<"e">>)>>)
    /\ Cardinality(Positions(result.s, ItemOpen)) = 5

CardStackOpen == "\n    <div style=\"display: flex; flex-direction: column; gap: 12px; margin-top: 8px;\">\n      "
CardStackClose == "\n    </div>\n  "
OrdinalOpen == "; border: 1px solid #e5e7eb; border-radius: 6px;\">\n              <div style=\"margin-bottom: 8px; font-weight: 600; color: #6b7280; font-size: 13px;\">Item "
OrdinalClose == "</div>\n              "
CardClose == "\n            </div>\n          "

\* C9: a sequence with at least one element that is no primitive is rendered
\* by renderArray as a card stack, not as a bulleted list, and the card of
\* every mapping element holds renderObject of that element at the
\* sequence's depth plus one.
C9_CardStack ==
    (called = "renderArray"
        /\ \E i \in DOMAIN input.items : ~isPrimitive(input.items[i])) =>
        LET s == result.s
        IN /\ Head(s) = CardStackOpen
           /\ s[Len(s)] = CardStackClose
           /\ Positions(s, ListOpen) \subseteq
                {p \in DOMAIN s : \E q \in 1..(p - 1) : s[q] = OrdinalClose}
           /\ \A i \in DOMAIN input.items :
                isObject(input.items[i]) =>
                    ContainsSub(s, <<OrdinalOpen>> \o NatToString(i) \o <<OrdinalClose>>
                                      \o renderObject(input.items[i], argDepth + 1).s
                                      \o <<CardClose>>)

C9_Witness ==
    /\ called = "renderArray"
    /\ argDepth = 0
    /\ input = Arr(<< Obj(<< <<DETECTED_HAZARDS, Arr(<<Obj(<<>>), OK>>)>> >>), OK >>)
    /\ Head(result.s) = CardStackOpen
    /\ Positions(result.s, "#ffffff") # {}

\* C10: ensureArray returns an array argument itself, the empty array for
\* null and undefined, and the one-element array [x] for any other x;
\* applying it to its own result changes nothing.
C10_EnsureArray ==
    called = "ensureArray" =>
        /\ isArray(result)
        /\ ensureArray(result) = result
        /\ isArray(input) => result = input
        /\ input \in {Null, Undefined} => result = Arr(<<>>)
        /\ (~isArray(input) /\ input \notin {Null, Undefined}) => result = Arr(<<input>>)

C10_Witness ==
    /\ called = "ensureArray"
    /\ input = Arr(<<Arr(<<>>), OK>>)
    /\ result = input

---------------------------------------------------------------------------
(* Reading JSON text back (JSON.parse of the text ensureString produced).  *)

Drop(s, n) == SubSeq(s, n + 1, Len(s))
StartsWith(s, t) == Len(s) >= Len(t) /\ SubSeq(s, 1, Len(t)) = t

RECURSIVE DigitRun(_)
DigitRun(s) ==
    IF s # <<>> /\ IsDigit(Head(s)) THEN <<Head(s)>> \o DigitRun(Tail(s)) ELSE <<>>

Fail == [ok |-> FALSE]
Parsed(v, rest) == [ok |-> TRUE, value |-> v, rest |-> rest]

\* the characters of a string literal after its opening quote
RECURSIVE ParseChars(_)
ParseChars(s) ==
    IF s = <<>> THEN Fail
    ELSE IF Head(s) = "\"" THEN Parsed(<<>>, Tail(s))
    ELSE IF Head(s) = "\\"
    THEN IF Len(s) < 2 \/ s[2] \notin {"\"", "\\"} THEN Fail
         ELSE LET r == ParseChars(Drop(s, 2))
              IN IF r.ok THEN Parsed(<<s[2]>> \o r.value, r.rest) ELSE Fail
    ELSE LET r == ParseChars(Tail(s))
         IN IF r.ok THEN Parsed(<<Head(s)>> \o r.value, r.rest) ELSE Fail

RECURSIVE ParseValue(_)
RECURSIVE ParseItems(_)
RECURSIVE ParseMembers(_)

ParseValue(s) ==
    IF s = <<>> THEN Fail
    ELSE IF Head(s) = "\""
    THEN LET r == ParseChars(Tail(s))
         IN IF r.ok THEN Parsed(Str(r.value), r.rest) ELSE Fail
    ELSE IF StartsWith(s, <<"t", "r", "u", "e">>) THEN Parsed(Bool(TRUE), Drop(s, 4))
    ELSE IF StartsWith(s, <<"f", "a", "l", "s", "e">>) THEN Parsed(Bool(FALSE), Drop(s, 5))
    ELSE IF StartsWith(s, <<"n", "u", "l", "l">>) THEN Parsed(Null, Drop(s, 4))
    ELSE IF StartsWith(s, <<"[", "]">>) THEN Parsed(Arr(<<>>), Drop(s, 2))
    ELSE IF Head(s) = "[" THEN ParseItems(Tail(s))
    ELSE IF StartsWith(s, <<"{", "}">>) THEN Parsed(Obj(<<>>), Drop(s, 2))
    ELSE IF Head(s) = "{" THEN ParseMembers(Tail(s))
    ELSE LET negative == Head(s) = "-"
             body == IF negative THEN Tail(s) ELSE s
             digits == DigitRun(body)
         IN IF digits = <<>> \/ (Len(digits) > 1 /\ Head(digits) = "0") THEN Fail
            ELSE Parsed(Num(IF negative THEN 0 - IndexValue(digits) ELSE IndexValue(digits)),
                        Drop(body, Len(digits)))

\* value (, value)* ]
ParseItems(s) ==
    LET r == ParseValue(s)
    IN IF ~r.ok THEN Fail
       ELSE IF r.rest = <<>> THEN Fail
       ELSE IF Head(r.rest) = "]" THEN Parsed(Arr(<<r.value>>), Tail(r.rest))
       ELSE IF Head(r.rest) = ","
       THEN LET t == ParseItems(Tail(r.rest))
            IN IF t.ok THEN Parsed(Arr(<<r.value>> \o t.value.items), t.rest) ELSE Fail
       ELSE Fail

\* "name" : value (, "name" : value)* }
ParseMembers(s) ==
    IF s = <<>> \/ Head(s) # "\"" THEN Fail
    ELSE LET k == ParseChars(Tail(s))
         IN IF ~k.ok THEN Fail
            ELSE IF k.rest = <<>> THEN Fail
            ELSE IF Head(k.rest) # ":" THEN Fail
            ELSE LET r == ParseValue(Tail(k.rest))
                 IN IF ~r.ok THEN Fail
                    ELSE IF r.rest = <<>> THEN Fail
                    ELSE IF Head(r.rest) = "}"
                    THEN Parsed(Obj(<< <<k.value, r.value>> >>), Tail(r.rest))
                    ELSE IF Head(r.rest) = ","
                    THEN LET t == ParseMembers(Tail(r.rest))
                         IN IF t.ok
                            THEN Parsed(Obj(<< <<k.value, r.value>> >> \o t.value.props), t.rest)
                            ELSE Fail
                    ELSE Fail

\* the value with the properties of every mapping in enumeration order
RECURSIVE Enumerated(_)
Enumerated(v) ==
    IF isObject(v)
    THEN LET ordered == OwnPropertyOrder(v.props)
         IN Obj([i \in DOMAIN ordered |-> <<ordered[i][1], Enumerated(ordered[i][2])>>])
    ELSE IF isArray(v) THEN Arr([i \in DOMAIN v.items |-> Enumerated(v.items[i])])
    ELSE v

\* C11: ensureString returns a string for every JSON value (and for
\* undefined): a string unchanged, the empty string for null and undefined,
\* the decimal form of a number, 'true' / 'false' for a boolean, and for a
\* mapping or sequence a JSON text that reads back as the value itself.
C11_EnsureString ==
    called = "ensureString" =>
        /\ ~IsThrow(result)
        /\ typeof(result) = "string"
        /\ typeof(input) = "string" => result = input
        /\ input \in {Null, Undefined} => result = Str(<<>>)
        /\ typeof(input) = "number" => ParseValue(result.s) = Parsed(input, <<>>)
        /\ input = Bool(TRUE) => result = Str(<<"t", "r", "u", "e">>)
        /\ input = Bool(FALSE) => result = Str(<<"f", "a", "l", "s", "e">>)
        /\ (isObject(input) \/ isArray(input)) =>
                ParseValue(result.s) = Parsed(Enumerated(input), <<>>)

C11_Witness ==
    /\ called = "ensureString"
    /\ input = Obj(<< <<HTML_DATA, OK>>, <<NOTES, Num(7)>>, <<MESSAGE, Obj(<<>>)>> >>)
    /\ result = Str(<<"{", "\"", "h", "t", "m", "l", "_", "d", "a", "t", "a", "\"", ":",
                      "\"", "o", "k", "\"", ",", "\"", "n", "o", "t", "e", "s", "\"", ":", "7",
                      ",", "\"", "m", "e", "s", "s", "a", "g", "e", "\"", ":", "{", "}", "}">>)

HeaderOpen == "\n    <div style=\"font-family: 'Segoe UI', Tahoma, Geneva, Verdana, sans-serif; padding: 40px; color: #1f2937; max-width: 900px; margin: 0 auto; background-color: #ffffff;\">\n      \n      <!-- Header -->\n      <div style=\"border-bottom: 2px solid #e5e7eb; padding-bottom: 20px; margin-bottom: 30px;\">\n        <h1 style=\"color: #111827; font-size: 28px; font-weight: 700; margin: 0 0 10px 0;\">"
TitleClose == "</h1>\n        "
SubtitleOpen == "<p style=\"color: #6b7280; font-size: 16px; margin: 0;\">"
SubtitleClose == "</p>"

\* the text of the document's <h1>
MainTitle(s) == TextAfter(s, 1, TitleClose)

\* the piece that follows the <h1>
AfterTitle(s) == s[Len(MainTitle(s)) + 3]

HasSubtitle(s) == AfterTitle(s) = SubtitleOpen
SubtitleOf(s) == TextAfter(s, Len(MainTitle(s)) + 3, SubtitleClose)

StringField(v, name) ==
    isObject(v) /\ HasOwn(v, name) /\ OwnValue(v, name).tag = "string"

DefaultTitle == <<"R", "e", "p", "o", "r", "t">>

\* C12: the <h1> of the document holds data.title when data is a mapping
\* with a string 'title', and otherwise the title argument ('Report' when the
\* argument is left out); the subtitle paragraph holds
\* data.hazardDetails.title when data is a mapping whose 'hazardDetails' is a
\* mapping with a string 'title' (an empty one leaves the subtitle empty),
\* and otherwise there is no subtitle paragraph.
C12_TitleAndSubtitle ==
    (called = "generateHtmlFromData" /\ IsJSON(input)) =>
        LET s == result.s
            details == OwnValue(input, HAZARD_DETAILS)
            subtitled == /\ isObject(input) /\ HasOwn(input, HAZARD_DETAILS)
                         /\ StringField(details, TITLE)
        IN /\ Head(s) = HeaderOpen
           /\ MainTitle(s) =
                IF StringField(input, TITLE) THEN OwnValue(input, TITLE).s
                ELSE IF argTitle = Undefined THEN DefaultTitle
                ELSE argTitle.s
           /\ AfterTitle(s) \in {SubtitleOpen, ContentMarker}
           /\ HasSubtitle(s) <=> (subtitled /\ OwnValue(details, TITLE).s # <<>>)
           /\ HasSubtitle(s) => SubtitleOf(s) = OwnValue(details, TITLE).s
           /\ (input = Obj(<< <<TITLE, Str(<<"F", "o", "r", "k", "l", "i", "f", "t">>)>>,
                              <<HAZARD_DETAILS,
                                Obj(<< <<TITLE, Str(<<"N", "e", "a", "r", " ", "M", "i", "s", "s">>)>> >>)>> >>)) =>
                    /\ MainTitle(s) = <<"F", "o", "r", "k", "l", "i", "f", "t">>
                    /\ SubtitleOf(s) = <<"N", "e", "a", "r", " ", "M", "i", "s", "s">>

C12_Witness ==
    /\ called = "generateHtmlFromData"
    /\ argTitle = Undefined
    /\ input = Obj(<< <<TITLE, Str(<<"F", "o", "r", "k", "l", "i", "f", "t">>)>>,
                      <<HAZARD_DETAILS,
                        Obj(<< <<TITLE, Str(<<"N", "e", "a", "r", " ", "M", "i", "s", "s">>)>> >>)>> >>)
    /\ MainTitle(result.s) = <<"F", "o", "r", "k", "l", "i", "f", "t">>
    /\ HasSubtitle(result.s)

GenerateReports == {"generateReport", "generateReport (part_003)"}

\* the response body is a mapping that carries an html_data of its own
CarriesHtmlData(v) == isObject(v) /\ HasOwn(v, HTML_DATA)

EndsWith(s, t) == Len(s) >= Len(t) /\ SubSeq(s, Len(s) - Len(t) + 1, Len(s)) = t

\* h is the opening fence, a markup m, the closing fence
Fenced(h) ==
    /\ h.tag = "string"
    /\ Len(h.s) >= Len(FenceOpen) + Len(FenceClose)
    /\ StartsWith(h.s, FenceOpen)
    /\ EndsWith(h.s, FenceClose)

MarkupOf(h) == SubSeq(h.s, Len(FenceOpen) + 1, Len(h.s) - Len(FenceClose))

Unmarked(h) == h.tag = "string" /\ ~includes(h.s, FenceOpen)

\* the text of t before its first closing fence
BeforeFence(t) == SubSeq(t, 1, IndexOf(t, FenceClose, 1) - 1)

\* m has no white space at its ends, is not empty, and three back quotes in
\* a row appear in m followed by the closing fence only at the very end
PlainMarkup(m) ==
    /\ m # <<>>
    /\ trim(m) = m
    /\ IndexOf(m \o FenceClose, FenceClose, 1) = Len(m) + 1

\* C13 as stated: an html_data that is the opening fence, m and the closing
\* fence is stored as exactly m, for every m; an html_data string without the
\* opening fence is stored as it is.
C13_StripYieldsMarkup ==
    (called \in GenerateReports /\ CarriesHtmlData(input)) =>
        LET h == OwnValue(input, HTML_DATA)
        IN /\ Fenced(h) => (~IsThrow(result) /\ OwnValue(result, HTML_DATA) = Str(MarkupOf(h)))
           /\ Unmarked(h) => (~IsThrow(result) /\ OwnValue(result, HTML_DATA) = h)

\* C13 amended: an html_data that is the opening fence, m and the closing
\* fence is stored as the text between the opening fence and the first
\* three back quotes after it, with the white space at both ends removed,
\* or unchanged (fences included) when that text is empty; that is m itself
\* when m is not empty, has no white space at its ends and no three back
\* quotes before the closing fence.  An html_data string without the opening
\* fence is stored as it is.
C13_StripYieldsTrimmedInner ==
    (called \in GenerateReports /\ CarriesHtmlData(input)) =>
        LET h == OwnValue(input, HTML_DATA)
            inner == trim(BeforeFence(MarkupOf(h) \o FenceClose))
        IN /\ Fenced(h) =>
                /\ ~IsThrow(result)
                /\ OwnValue(result, HTML_DATA) = IF inner = <<>> THEN h ELSE Str(inner)
                /\ PlainMarkup(MarkupOf(h)) => OwnValue(result, HTML_DATA) = Str(MarkupOf(h))
           /\ Unmarked(h) => (~IsThrow(result) /\ OwnValue(result, HTML_DATA) = h)

C13_Witness ==
    /\ called = "generateReport"
    /\ input = Obj(<< <<MESSAGE, OK>>,
                      <<HTML_DATA, Str(FenceOpen \o <<" ", "x", " ">> \o FenceClose)>> >>)
    /\ result = Obj(<< <<MESSAGE, OK>>, <<HTML_DATA, Str(<<"x">>)>> >>)

\* C14: when the html_data of the response is a mapping, the markup stored
\* as the result is generateHtmlFromData of that mapping.
C14_StructuredUsesAssembler ==
    (called \in GenerateReports /\ CarriesHtmlData(input)
        /\ isObject(OwnValue(input, HTML_DATA))) =>
        /\ ~IsThrow(result)
        /\ \E t \in Titles, d \in Dates :
                OwnValue(result, HTML_DATA)
                    = generateHtmlFromData(OwnValue(input, HTML_DATA), t, d)

Succeeded(status) == status >= 200 /\ status <= 299

\* the POST requests for which the remote webhook has answered
Answered == {i \in DOMAIN posts : posts[i].pc = "done" /\ posts[i].remote # Undefined}

\* C15: every status outside 200..299 that the remote webhook returns is
\* answered by the proxy with an error response that carries the remote
\* status and the remote payload, never with a success response.
C15_NonSuccessReported ==
    \A i \in Answered :
        ~Succeeded(posts[i].remote.status) =>
            /\ posts[i].response.status = posts[i].remote.status
            /\ ~Succeeded(posts[i].response.status)
            /\ isObject(posts[i].response.body)
            /\ ToBoolean(posts[i].remote.data) =>
                    \E p \in DOMAIN posts[i].response.body.props :
                        posts[i].response.body.props[p][2] = posts[i].remote.data

\* the same for the statuses from 400 to 599
C15_ErrorStatusReported ==
    \A i \in Answered :
        (posts[i].remote.status >= 400 /\ posts[i].remote.status <= 599) =>
            /\ posts[i].response.status = posts[i].remote.status
            /\ isObject(posts[i].response.body)
            /\ ToBoolean(posts[i].remote.data) =>
                    \E p \in DOMAIN posts[i].response.body.props :
                        posts[i].response.body.props[p][2] = posts[i].remote.data

\* the component's calls that have sent their request and seen it fail: the
\* fetch rejected, or the webhook answered with a status outside 200..299
FailedCalls == {i \in DOMAIN calls : calls[i].remote # Undefined /\ ~calls[i].remote.ok}

\* at most one request to the webhook per generateReport call and per POST
C16_SingleAttempt ==
    /\ \A i \in DOMAIN calls : calls[i].sent <= 1
    /\ \A i \in DOMAIN posts : posts[i].sent <= 1

\* a call whose request failed is over, with nothing sent after the failure
C16_FailedCallIsOver ==
    \A i \in FailedCalls : calls[i].pc = "done" /\ calls[i].sent = 1 /\ ~calls[i].timer

\* the step in which a call's request fails sets the error
C16_FailureSetsError ==
    [][\A i \in DOMAIN calls :
          (calls[i].pc = "fetch" /\ calls'[i].pc = "done") => ui'.error # Null]_vars

\* C16: a generateReport call and a POST each send at most one request to
\* the webhook; an attempt that fails or is answered with a status outside
\* 200..299 ends in an error (the component's call is over with the error
\* path taken, the proxy answers with an error status) and nothing is sent
\* again.
C16_SingleAttemptSurfaced ==
    /\ C16_SingleAttempt
    /\ C16_FailedCallIsOver
    /\ \A i \in DOMAIN posts :
          (posts[i].pc = "done" /\ posts[i].sent = 1
              /\ (posts[i].remote = Undefined \/ ~Succeeded(posts[i].remote.status)))
          => ~Succeeded(posts[i].response.status)

RenderingOperations ==
    {"generateHtmlFromData", "renderObject", "renderArray", "renderPrimitive",
     "ensureArray", "ensureString"}

Classes == {"Primitive", "Array", "Object", "Absent"}
ClassOf(value) ==
    CASE value.tag \in {"string", "number", "boolean"} -> "Primitive"
      [] value.tag = "array" -> "Array"
      [] value.tag = "object" -> "Object"
      [] value.tag \in {"null", "undefined"} -> "Absent"

\* the classes the guards' answers put a value in: one per guard that
\* answered true, Absent when none did
ClassesByGuards(answers) ==
    {c \in Classes :
        \/ c = "Primitive" /\ answers.items[1].b
        \/ c = "Array" /\ answers.items[2].b
        \/ c = "Object" /\ answers.items[3].b
        \/ c = "Absent" /\ \A i \in 1..3 : ~answers.items[i].b}

\* C18: isPrimitive, isArray and isObject are mutually exclusive and, with
\* Absent for null and undefined (all three false), put every value in
\* exactly one of Primitive, Array, Object, Absent; the class is that of the
\* value's kind at whatever render depth the value is met.
C18_ExactlyOneClass ==
    called = "isPrimitive, isArray, isObject" =>
        /\ Cardinality(ClassesByGuards(result)) = 1
        /\ ClassesByGuards(result) = {ClassOf(input)}

\* the guards have all answered false for null, met away from the root
C18_Witness ==
    /\ called = "isPrimitive, isArray, isObject"
    /\ argDepth > 0
    /\ input = Null
    /\ ClassesByGuards(result) = {"Absent"}

CardOpen == "\n            <div style=\"padding: 15px; background-color: "
BoxOpen == "<div style=\"padding: 10px; background-color: #f9fafb; border-radius: 4px;\">"

\* renderArray has returned a card stack
CardStackForm ==
    /\ called = "renderArray"
    /\ \E i \in DOMAIN input.items : ~isPrimitive(input.items[i])

\* the least position from which on s reads t, at or after position from; 0 if none
FindFrom(s, t, from) ==
    LET hits == {p \in from..(Len(s) - Len(t) + 1) : SubSeq(s, p, p + Len(t) - 1) = t}
    IN IF hits = {} THEN 0 ELSE CHOOSE p \in hits : \A q \in hits : p <= q

\* the labels 'Item i', ..., 'Item n' are read in s in this order from position from on
RECURSIVE LabelsInOrder(_, _, _, _)
LabelsInOrder(s, from, i, n) ==
    IF i > n THEN TRUE
    ELSE LET at == FindFrom(s, <<OrdinalOpen>> \o NatToString(i) \o <<OrdinalClose>>, from)
         IN at # 0 /\ LabelsInOrder(s, at + 1, i + 1, n)

\* C19 as stated: in card-stack form every element of the sequence, whatever
\* its shape, is a card labelled 'Item N', N its 1-based position, and the
\* cards come in the order of the elements.
C19_EveryElementACard ==
    CardStackForm => LabelsInOrder(result.s, 1, 1, Len(input.items))

\* what the card stack holds for the element at position i
ElementBlock(item, i, depth) ==
    IF isObject(item)
    THEN <<CardOpen>> \o cardBackground(depth).s \o <<OrdinalOpen>> \o NatToString(i)
            \o <<OrdinalClose>> \o renderObject(item, depth + 1).s \o <<CardClose>>
    ELSE <<BoxOpen, PlainOpen>> \o ensureString(item).s \o <<"</p>", "</div>">>

\* C19 (amended): in card-stack form every mapping element is a card
\* labelled 'Item N', N the element's 1-based position among all elements of
\* the sequence; every other element (null, a nested sequence, a primitive)
\* is an unlabelled box holding its string form as plain text; cards and
\* boxes come in the order of the elements and the stack holds nothing else.
C19_CardsForMappingsBoxesForOthers ==
    CardStackForm =>
        result.s = <<CardStackOpen>>
                    \o Flatten([i \in DOMAIN input.items |->
                                    ElementBlock(input.items[i], i, argDepth)])
                    \o <<CardStackClose>>

\* a stack of a primitive, a mapping and null: one card, labelled with the
\* mapping's position, between two boxes
C19_Witness ==
    /\ called = "renderArray"
    /\ input = Arr(<<OK, Obj(<< <<NOTES, OK>> >>), Null>>)
    /\ Cardinality(Positions(result.s, OrdinalOpen)) = 1
    /\ ContainsSub(result.s, <<OrdinalOpen, "2", OrdinalClose>>)
    /\ Cardinality(Positions(result.s, BoxOpen)) = 2

\* where the block of element i starts in the card stack
RECURSIVE BlockStart(_)
BlockStart(i) ==
    IF i = 1 THEN 2
    ELSE BlockStart(i - 1) + Len(ElementBlock(input.items[i - 1], i - 1, argDepth))

\* the cards of the stack's own mapping elements
TopCards == {BlockStart(i) : i \in {j \in DOMAIN input.items : isObject(input.items[j])}}

\* C20 as stated: the card background alternates with the parity of the
\* render depth, so that depths d and d+1 differ and depths d and d+2 agree.
C20_BackgroundByParity ==
    CardStackForm =>
        \A p \in TopCards :
            result.s[p + 1] = IF argDepth % 2 = 0 THEN "#f9fafb" ELSE "#ffffff"

\* C20 (amended): the card of a mapping element has the background #f9fafb
\* in a stack rendered at depth 0 and #ffffff in a stack rendered at any
\* depth from 1 on, so depths 0 and 1 differ and all depths from 1 on
\* agree; the cards nested inside a card are all #ffffff.
C20_TopLevelVersusNested ==
    CardStackForm =>
        /\ TopCards \subseteq Positions(result.s, CardOpen)
        /\ \A p \in Positions(result.s, CardOpen) :
              result.s[p + 1] = IF argDepth = 0 /\ p \in TopCards THEN "#f9fafb" ELSE "#ffffff"

\* a stack rendered at depth 2 whose card holds a card
C20_Witness ==
    /\ called = "renderArray"
    /\ argDepth = 2
    /\ input = Arr(<< Obj(<< <<DETECTED_HAZARDS, Arr(<<Obj(<<>>), OK>>)>> >>), OK >>)
    /\ Cardinality(Positions(result.s, CardOpen)) = 2
    /\ Positions(result.s, "#f9fafb") = {}

\* the part of a value at a place: positions taken from the value, in
\* Object.entries order for a mapping
RECURSIVE PartAt(_, _)
PartAt(value, path) ==
    IF path = <<>> THEN value
    ELSE IF isArray(value) THEN PartAt(value.items[Head(path)], Tail(path))
    ELSE PartAt(ObjectEntries(value).items[Head(path)][2], Tail(path))

\* the mappings entered below the root on the way to a place, the part at
\* the place included
MappingsEntered(value, path) ==
    Cardinality({n \in 1..Len(path) : isObject(PartAt(value, SubSeq(path, 1, n)))})

\* C21 as stated: depth is 0 at the root and goes up by one with every
\* nested mapping and every nested sequence entered, so a value enclosed in
\* k containers is rendered at depth k.
C21_DepthCountsContainers ==
    called = "generateHtmlFromData" =>
        \A c \in bodyCalls(input) : c.depth = Len(c.path)

\* C21 (amended): depth is 0 at the root and goes up by one with every
\* nested mapping entered, and with nothing else: a sequence held by a
\* mapping is rendered at that mapping's depth, so a value is rendered at
\* the number of mappings entered below the root on the way to it, itself
\* included.
C21_DepthCountsMappings ==
    called = "generateHtmlFromData" =>
        \A c \in bodyCalls(input) :
            /\ c.depth = MappingsEntered(input, c.path)
            /\ (c.op = "renderObject") = isObject(PartAt(input, c.path))
            /\ (c.op = "renderArray") = isArray(PartAt(input, c.path))

\* a sequence rendered at depth 1 with two containers around it, and a
\* mapping in it rendered at depth 2
C21_Witness ==
    /\ called = "generateHtmlFromData"
    /\ ~IsThrow(result)
    /\ \E c \in bodyCalls(input) : c.op = "renderArray" /\ c.depth = 1 /\ Len(c.path) = 2
    /\ \E c \in bodyCalls(input) : c.op = "renderObject" /\ c.depth = 2 /\ Len(c.path) = 3

\* the number of containers on the longest way down into a value
RECURSIVE ContainerDepth(_)
ContainerDepth(value) ==
    LET parts == IF isArray(value) THEN {value.items[i] : i \in DOMAIN value.items}
                 ELSE IF isObject(value) THEN {value.props[i][2] : i \in DOMAIN value.props}
                 ELSE {}
        depths == {ContainerDepth(part) : part \in parts}
    IN IF ~(isArray(value) \/ isObject(value)) THEN 0
       ELSE IF depths = {} THEN 1
       ELSE 1 + CHOOSE d \in depths : \A e \in depths : e <= d

\* the positions of the parts of a container that rendering goes into
PartsToRender(value) ==
    IF isObject(value)
    THEN {i \in DOMAIN ObjectEntries(value).items :
            LET entry == ObjectEntries(value).items[i]
            IN entry[1] \notin {Str(MESSAGE), Str(HTML_DATA)}
                /\ (isObject(entry[2]) \/ isArray(entry[2]))}
    ELSE IF \E i \in DOMAIN value.items : ~isPrimitive(value.items[i])
    THEN {i \in DOMAIN value.items : isObject(value.items[i])}
    ELSE {}

\* every call under way was made by the call before it, on a part of that
\* call's argument, which nests less deep
DescendsStrictly ==
    \A n \in 1..(Len(frames) - 1) :
        LET outer == frames[n].call
            inner == frames[n + 1].call
        IN /\ SubSeq(inner.path, 1, Len(outer.path)) = outer.path
           /\ Len(inner.path) = Len(outer.path) + 1
           /\ inner.arg = PartAt(outer.arg, <<inner.path[Len(inner.path)]>>)
           /\ ContainerDepth(inner.arg) < ContainerDepth(outer.arg)

\* no call under way leaves out a part it is to go into, however deep it is
NothingCutOff ==
    \A n \in DOMAIN frames :
        LET made == {c.path[Len(c.path)] : c \in {callsBelow(frames[n].call)[k] :
                                                     k \in DOMAIN callsBelow(frames[n].call)}}
        IN made = PartsToRender(frames[n].call.arg)

\* the markup of every call made is part of what the root call returns
NothingLeftOut ==
    (frames = <<>> /\ called \in {"renderObject", "renderArray"}) =>
        LET returned == IF called = "renderObject" THEN renderObject(input, 0)
                        ELSE renderArray(input, Undefined, 0)
        IN \A c \in bodyCalls(input) :
              LET html == IF c.op = "renderObject" THEN renderObject(c.arg, c.depth)
                          ELSE renderArray(c.arg, Undefined, c.depth)
              IN ~IsThrow(returned) /\ ContainsSub(returned.s, html.s)

\* C22: rendering terminates for every finite JSON value: each recursive
\* call of renderObject / renderArray is on a part of the caller's argument,
\* so no more calls are under way than the value nests deep, every part to
\* be rendered is gone into whatever its depth (nothing is cut off at a
\* maximum depth), and in the end no call is left under way.
C22_RenderingTerminates ==
    /\ [](Len(frames) <= ContainerDepth(input))
    /\ [](DescendsStrictly /\ NothingCutOff /\ NothingLeftOut)
    /\ <>(frames = <<>>)

\* the root call has returned for a value that nests four containers deep
\* or deeper, after a call at depth 3
C22_Witness ==
    /\ frames = <<>>
    /\ called \in {"renderObject", "renderArray"}
    /\ ContainerDepth(input) >= 4
    /\ \E c \in bodyCalls(input) : c.depth = 3

\* the calls whose webhook request is pending: sent, and the try block not yet left
Pending == {i \in DOMAIN calls : calls[i].pc \in {"fetch", "json"}}

\* C23: at most one generateReport invocation is in flight at any time,
\* whatever the user does: isProcessing is true whenever a request is
\* pending, and no invocation starts while one is pending.
C23_AtMostOneInFlight ==
    /\ Cardinality(Pending) <= 1
    /\ Pending # {} => ui.isProcessing

\* the same while Try Example is never clicked
C23_AtMostOneByGenerate ==
    (\A i \in DOMAIN calls : calls[i].file # File("no-helmet.png") /\ calls[i].pc # "example") =>
        C23_AtMostOneInFlight

\* while a request is pending the progress is one of 0, 10, ..., 90
PendingProgress == Pending # {} => ui.progress \in {10 * n : n \in 0..9}

\* the step starts a generateReport invocation
Starts ==
    \E i \in DOMAIN calls' :
        calls'[i].pc = "fetch" /\ (i \in DOMAIN calls => calls[i].pc # "fetch")

\* the step is the successful end of an invocation
Succeeds ==
    \E i \in DOMAIN calls : calls[i].pc = "json" /\ calls'[i].pc = "done" /\ ui'.result # Null

\* the progress becomes 100 only at a successful end, and from 100 it
\* changes only at the start of an invocation or at a reset
ProgressStep ==
    /\ (ui.progress # 100 /\ ui'.progress = 100) => Succeeds
    /\ (ui.progress = 100 /\ ui'.progress # 100) => (Starts \/ (ui.file # Null /\ ui'.file = Null))

\* C24: the progress is one of 0, 10, ..., 90 while a request is pending,
\* becomes 100 only after a successful response, and then stays 100 until
\* the next start of generateReport or a reset: no timer tick lowers it.
C24_Progress == [](PendingProgress) /\ [][ProgressStep]_vars

\* the same while Try Example is never clicked
C24_ProgressByGenerate ==
    /\ []((\A i \in DOMAIN calls : calls[i].file # File("no-helmet.png") /\ calls[i].pc # "example")
            => PendingProgress)
    /\ [][(\A i \in DOMAIN calls' : calls'[i].file # File("no-helmet.png") /\ calls'[i].pc # "example")
            => ProgressStep]_vars

\* the step in which an invocation that has sent its request ends
Ends(i) == i \in Pending /\ calls'[i].pc = "done"

\* at its end an invocation has set isProcessing to false, has cleared its
\* timer, and has either set the result and the progress 100 or set the
\* error and the progress 0
EndStep ==
    \A i \in DOMAIN calls :
        Ends(i) =>
            /\ ~ui'.isProcessing
            /\ ~calls'[i].timer
            /\ (ui'.result # Null /\ ui'.progress = 100) # (ui'.error # Null /\ ui'.progress = 0)

\* C25: every generateReport invocation that has sent its request comes to
\* its end once the request settles, whether the response is OK, not OK or
\* unparsable or the fetch rejects: isProcessing is set to false, the
\* invocation's own timer is cleared, and the end is exactly one of: result
\* set with progress 100, error set with progress 0.
C25_InvocationEnds ==
    /\ \A i \in 1..MaxCalls :
          (i \in Pending) ~> (i \in DOMAIN calls /\ calls[i].pc = "done" /\ ~calls[i].timer)
    /\ [][EndStep]_vars

\* two invocations have ended, one after a response that was not OK and one
\* with a result
C25_Witness ==
    /\ \A i \in DOMAIN calls : calls[i].pc = "done" /\ calls[i].sent = 1
    /\ \E i \in DOMAIN calls : ~calls[i].remote.ok
    /\ \E i \in DOMAIN calls : calls[i].remote.ok
    /\ Len(calls) = 2
    /\ ui.result # Null
    /\ ~ui.isProcessing

\* the step is a reset
Resets == ui.file # Null /\ ui'.file = Null

\* the invocations started with a selected file that has been reset since:
\* they were pending when the reset came
PendingSinceBeforeReset ==
    {i \in Pending : ui.file = Null /\ calls[i].file = File("hazard.png")}

\* a reset leaves file, result and error null and the progress 0
C26_ResetClears ==
    [][Resets => (ui'.file = Null /\ ui'.result = Null /\ ui'.error = Null /\ ui'.progress = 0)]_vars

\* C26: after reset, file, result and error are null and progress is 0, and
\* the result stays null until an invocation started after the reset
\* completes: the end of a request that was pending at the reset does not
\* set the result.
C26_ResetHolds ==
    [][/\ Resets => (ui'.file = Null /\ ui'.result = Null /\ ui'.error = Null /\ ui'.progress = 0)
       /\ \A i \in PendingSinceBeforeReset :
             (Ends(i) /\ ui.result = Null) => ui'.result = Null]_vars

\* C27: a result and a generateReport error are never on display together:
\* when an invocation fails and sets the error, the result is null.
C27_NoResultWithError ==
    [][\A i \in DOMAIN calls :
          (Ends(i) /\ ui'.progress = 0 /\ ui'.error # Null) => ui'.result = Null]_vars

\* a failing invocation sets the error and leaves the result as it was
C27_FailureKeepsResult ==
    [][\A i \in DOMAIN calls :
          (Ends(i) /\ ui'.progress = 0) => (ui'.error # Null /\ ui'.result = ui.result)]_vars

\* C28: the label formatKeyName computes is a string for every key string,
\* the keys that are names of built-in object properties ('constructor',
\* 'toString', ...) included.
C28_LabelIsString ==
    called = "formatKeyName" => typeof(result) = "string"

\* the same for the keys that are no names of properties of Object.prototype
C28_LabelIsStringOwnNames ==
    (called = "formatKeyName" /\ Get(Obj(<<>>), input.s) = Undefined) => typeof(result) = "string"

\* the message of an answer
MessageOf(response) == OwnValue(response.body, MESSAGE)

WebhookErrorMessage == Lit("n8n webhook error")
NetworkErrorMessage == Lit("Network error while connecting to n8n")
InternalErrorMessage == Lit("Internal Server Error")

====
